---- MODULE Spec2Model ----
(***************************************************************************)
(* ChatForge (src/ChatForge.py): the chat request lifecycle.               *)
(*                                                                         *)
(* The interactive thread runs the handlers of OllamaChatGUI (send_message,*)
(* handle_streaming_chunk, handle_response, handle_error, the dialogs);    *)
(* each OllamaThread runs OllamaThread.run and emits Qt signals, which are *)
(* queued into the interactive thread's event queue (event_queue) and      *)
(* handled there one at a time.  Text is a sequence of one-character       *)
(* strings, so that strip, split, startswith and concatenation are         *)
(* computed as Python computes them.                                       *)
(*                                                                         *)
(* A dialog is modal: while it is open no other user input reaches the     *)
(* window and no handler changes the configuration, so a dialog is one     *)
(* step whose result (cancelled / accepted with values) is an input.       *)
(*                                                                         *)
(* Spec is the session with requests that overlap; SpecSolo the session    *)
(* with one request at a time; SpecSubmit every text typed, with the       *)
(* dialogs it opens, one request at a time.                                *)
(***************************************************************************)
EXTENDS Integers, Sequences, FiniteSets, TLC

\* ---------------------------------------------------------------- bounds
MaxRequests == 2      \* OllamaThreads started in one run of the program
MaxChunks == 2        \* chunk lines one streaming answer holds
MaxSubmits == 1       \* OllamaThreads started in one run of SpecSubmit

\* ------------------------------------------------------------------ text
WhiteSpace == {" ", "\n"}

RECURSIVE lstrip(_)
lstrip(s) ==
    IF s # <<>> /\ Head(s) \in WhiteSpace THEN lstrip(Tail(s)) ELSE s

RECURSIVE rstrip(_)
rstrip(s) ==
    IF s # <<>> /\ s[Len(s)] \in WhiteSpace
    THEN rstrip(SubSeq(s, 1, Len(s) - 1)) ELSE s

\* a mutant of strip: the text is taken as typed
strip_unstripped(s) == s

\* str.strip()
strip(s) == rstrip(lstrip(s))

\* str.startswith(prefix)
startswith(s, prefix) ==
    /\ Len(s) >= Len(prefix)
    /\ SubSeq(s, 1, Len(prefix)) = prefix

RECURSIVE word(_)
\* the longest whitespace-free prefix of s
word(s) ==
    IF s = <<>> \/ Head(s) \in WhiteSpace THEN <<>>
    ELSE <<Head(s)>> \o word(Tail(s))

\* str.split()[0] of a text that holds a non-whitespace character
first_token(s) == word(lstrip(s))

\* the letters str.lower and str.upper map to each other
LowerCase ==
    <<"a", "b", "c", "d", "e", "f", "g", "h", "i", "j", "k", "l", "m",
      "n", "o", "p", "q", "r", "s", "t", "u", "v", "w", "x", "y", "z">>
UpperCase ==
    <<"A", "B", "C", "D", "E", "F", "G", "H", "I", "J", "K", "L", "M",
      "N", "O", "P", "Q", "R", "S", "T", "U", "V", "W", "X", "Y", "Z">>

lower_char(c) ==
    IF \E k \in DOMAIN UpperCase : UpperCase[k] = c
    THEN LowerCase[CHOOSE k \in DOMAIN UpperCase : UpperCase[k] = c]
    ELSE c

upper_char(c) ==
    IF \E k \in DOMAIN LowerCase : LowerCase[k] = c
    THEN UpperCase[CHOOSE k \in DOMAIN LowerCase : LowerCase[k] = c]
    ELSE c

RECURSIVE lower(_)
\* str.lower()
lower(s) ==
    IF s = <<>> THEN <<>> ELSE <<lower_char(Head(s))>> \o lower(Tail(s))

\* ------------------------------------------------------- program values
None == "None"
\* current_streaming_bubble refers to a ChatBubble that is in chat_layout
Attached == "attached"
\* ... or to one that setup_welcome_view took out of the layout (deleteLater)
Detached == "detached"

DefaultApiUrl == "http://localhost:11434"
ApiUrls == {DefaultApiUrl, "http://other:11434"}

Llama2 == <<"l", "l", "a", "m", "a", "2", ":", "1", "3", "b">>
\* names the model list offers (model['name'] of /api/tags)
ModelNames == {Llama2}

PromptX == <<"X">>
\* texts the system-prompt dialog may hold when saved (already stripped)
SystemPrompts == {<<>>, PromptX}

\* texts typed into message_input
InputTexts ==
    { <<>>,
      <<" ", "\n">>,
      <<" ", "h", "i", " ">>,
      <<"/", "c", "l", "e", "a", "r">>,
      <<" ", "/", "c", "l", "e", "a", "r", " ", "x">>,
      <<"/", "m", "o", "d", "e", "l", "s">>,
      <<"/", "s", "y", "s", "t", "e", "m">>,
      <<"/", "b", "y", "e">>,
      <<"/", "s", "y", "s">> }

Hel == <<"H", "e", "l">>
Lo == <<"l", "o">>
World == <<" ", "w", "o", "r", "l", "d">>
\* the text the server answers with, cut into the 'response' fields of
\* its JSON lines
Answer == <<Hel, Lo, World>>
\* the 'response' field of the k-th line that has one
ChunkAt(k) == Answer[((k - 1) % Len(Answer)) + 1]
\* the 'response' field of a complete (stream = false) answer
FullAnswer == Hel \o Lo \o World

NoResponseContent ==
    <<"N", "o", " ", "r", "e", "s", "p", "o", "n", "s", "e", " ",
      "c", "o", "n", "t", "e", "n", "t">>
\* response.status_code of an answer that is not 200, and its response.text
ServerErrorStatus == <<"5", "0", "0">>
ErrorText == <<"n", "o">>
StatusOK == <<"2", "0", "0">>
\* no answer (yet): requests.post has not returned
NoStatus == <<>>
\* a mutant of StatusCodeError: the body text is left out
StatusCodeError_without_text(status_code, error_text) ==
    <<"E", "r", "r", "o", "r", ":", " ", "S", "t", "a", "t", "u", "s", " ",
      "c", "o", "d", "e", " ">> \o status_code

\* f"Error: Status code {response.status_code} - {error_text}"
StatusCodeError(status_code, error_text) ==
    <<"E", "r", "r", "o", "r", ":", " ", "S", "t", "a", "t", "u", "s", " ",
      "c", "o", "d", "e", " ">> \o status_code \o <<" ", "-", " ">>
        \o error_text
StatusError == StatusCodeError(ServerErrorStatus, ErrorText)
NetworkError == <<"N", "e", "t">>
FormatError == <<"F", "m", "t">>
UnexpectedError == <<"E", "x", "c">>
ErrorPrefix == <<"E", "r", "r", "o", "r", ":", " ">>

\* ---------------------------------------------------- format_model_name
Digits == {"0", "1", "2", "3", "4", "5", "6", "7", "8", "9"}

\* the letters of the marker that stands for 'uncensored' (each written
\* by its code point, a character like any other)
MarkerLetters == {"U+00FC", "U+00F3", "U+03A9"}

\* the characters \w matches
WordChars ==
    { LowerCase[k] : k \in DOMAIN LowerCase } \cup
    { UpperCase[k] : k \in DOMAIN UpperCase } \cup
    Digits \cup {"_"} \cup MarkerLetters

\* c in s
contains(s, c) == \E k \in DOMAIN s : s[k] = c

RECURSIVE replace(_, _, _)
\* str.replace(old, new), old not empty
replace(s, old, new) ==
    IF s = <<>> THEN <<>>
    ELSE IF startswith(s, old)
         THEN new \o replace(SubSeq(s, Len(old) + 1, Len(s)), old, new)
         ELSE <<Head(s)>> \o replace(Tail(s), old, new)

\* name.split('/')[-1]
after_last_slash(name) ==
    LET at == { k \in DOMAIN name : name[k] = "/" }
        last_at == CHOOSE k \in at : \A j \in at : j <= k
    IN  IF at = {} THEN name ELSE SubSeq(name, last_at + 1, Len(name))

\* name.split(':', 1), for a name that holds a ':'
split_colon(name) ==
    LET at == { k \in DOMAIN name : name[k] = ":" }
        first_at == CHOOSE k \in at : \A j \in at : k <= j
    IN  << SubSeq(name, 1, first_at - 1),
           SubSeq(name, first_at + 1, Len(name)) >>

RECURSIVE digits_end(_, _)
\* the last position of the run of digits of s that begins at p (p - 1
\* when s[p] is no digit)
digits_end(s, p) ==
    IF p <= Len(s) /\ s[p] \in Digits THEN digits_end(s, p + 1) ELSE p - 1

\* where a match of \d+(?:\.\d+)?[bB] that begins at p ends; 0 when
\* there is none
size_match_end(s, p) ==
    LET e == digits_end(s, p)
        f == digits_end(s, e + 2)
    IN  IF e < p THEN 0
        ELSE IF e + 1 <= Len(s) /\ s[e + 1] \in {"b", "B"} THEN e + 1
        ELSE IF /\ e + 1 <= Len(s) /\ s[e + 1] = "."
                /\ f >= e + 2
                /\ f + 1 <= Len(s) /\ s[f + 1] \in {"b", "B"}
             THEN f + 1
             ELSE 0

\* a mutant of size_search: the match that begins last is taken
size_search_rightmost(s) ==
    LET starts == { p \in DOMAIN s : size_match_end(s, p) # 0 }
        p == CHOOSE q \in starts : \A r \in starts : q >= r
    IN  IF starts = {} THEN <<>> ELSE SubSeq(s, p, size_match_end(s, p))

\* re.search(r'(\d+(?:\.\d+)?[bB])', s): group(1) of the leftmost match,
\* '' when there is none
size_search(s) ==
    LET starts == { p \in DOMAIN s : size_match_end(s, p) # 0 }
        p == CHOOSE q \in starts : \A r \in starts : q <= r
    IN  IF starts = {} THEN <<>> ELSE SubSeq(s, p, size_match_end(s, p))

\* model_families, in definition order
model_families ==
    << [key |-> <<"l", "l", "a", "m", "a">>,
        value |-> <<"L", "l", "a", "m", "a">>],
       [key |-> <<"m", "i", "s", "t", "r", "a", "l">>,
        value |-> <<"M", "i", "s", "t", "r", "a", "l">>],
       [key |-> <<"c", "o", "d", "e", "l", "l", "a", "m", "a">>,
        value |-> <<"C", "o", "d", "e", "L", "l", "a", "m", "a">>],
       [key |-> <<"w", "i", "z", "a", "r", "d", "l", "m">>,
        value |-> <<"W", "i", "z", "a", "r", "d", "L", "M">>],
       [key |-> <<"w", "i", "z", "a", "r", "d">>,
        value |-> <<"W", "i", "z", "a", "r", "d">>],
       [key |-> <<"g", "e", "m", "m", "a">>,
        value |-> <<"G", "e", "m", "m", "a">>],
       [key |-> <<"f", "a", "l", "c", "o", "n">>,
        value |-> <<"F", "a", "l", "c", "o", "n">>],
       [key |-> <<"p", "h", "i">>,
        value |-> <<"P", "h", "i">>],
       [key |-> <<"s", "t", "a", "b", "l", "e", "l", "m">>,
        value |-> <<"S", "t", "a", "b", "l", "e", "L", "M">>],
       [key |-> <<"t", "i", "n", "y", "l", "l", "a", "m", "a">>,
        value |-> <<"T", "i", "n", "y", "L", "l", "a", "m", "a">>],
       [key |-> <<"v", "i", "c", "u", "n", "a">>,
        value |-> <<"V", "i", "c", "u", "n", "a">>],
       [key |-> <<"n", "o", "u", "s">>,
        value |-> <<"N", "o", "u", "s">>],
       [key |-> <<"o", "r", "c", "a">>,
        value |-> <<"O", "r", "c", "a">>],
       [key |-> <<"y", "i">>,
        value |-> <<"Y", "i">>] >>

\* \bkey\b matches s at p, letters compared without regard to case
word_match(s, key, p) ==
    LET e == p + Len(key) - 1
    IN  /\ e <= Len(s)
        /\ lower(SubSeq(s, p, e)) = key
        /\ p = 1 \/ s[p - 1] \notin WordChars
        /\ e = Len(s) \/ s[e + 1] \notin WordChars

RECURSIVE sub_word_from(_, _, _, _)
sub_word_from(s, key, value, p) ==
    IF p > Len(s) THEN <<>>
    ELSE IF word_match(s, key, p)
         THEN value \o sub_word_from(s, key, value, p + Len(key))
         ELSE <<s[p]>> \o sub_word_from(s, key, value, p + 1)

\* re.sub(r'\b' + key + r'\b', value, s, flags=re.IGNORECASE)
sub_word(s, key, value) == sub_word_from(s, key, value, 1)

RECURSIVE apply_families(_, _)
\* the loop over model_families.items(), from entry k on
apply_families(name, k) ==
    IF k > Len(model_families) THEN name
    ELSE apply_families(
             sub_word(name, model_families[k].key, model_families[k].value),
             k + 1)

\* a mutant of Marker: the marker keeps the word it stands for
Marker_keeping_the_word ==
    <<"(", "u", "n", "c", "e", "n", "s", "o", "r", "e", "d", ")">>

\* the marker 'uncensored' is replaced with
Marker == <<"(", "U+F8FF", "U+00FC", "U+00F3", "U+03A9", ")">>

Uncensored == <<"u", "n", "c", "e", "n", "s", "o", "r", "e", "d">>

RECURSIVE split(_)
\* str.split()
split(s) ==
    LET t == lstrip(s)
    IN  IF t = <<>> THEN <<>>
        ELSE <<word(t)>> \o split(SubSeq(t, Len(word(t)) + 1, Len(t)))

RECURSIVE join(_)
\* ' '.join(words)
join(words) ==
    IF words = <<>> THEN <<>>
    ELSE IF Len(words) = 1 THEN Head(words)
    ELSE Head(words) \o <<" ">> \o join(Tail(words))

\* one turn of the loop over words: the word as it is appended to
\* capitalized_words
capitalized(w) ==
    IF \/ \E k \in DOMAIN model_families :
              lower(w) = lower(model_families[k].value)
       \/ w = Marker
    THEN w
    ELSE <<upper_char(Head(w))>> \o Tail(w)

RECURSIVE capitalize_words(_)
capitalize_words(words) ==
    IF words = <<>> THEN <<>>
    ELSE <<capitalized(Head(words))>> \o capitalize_words(Tail(words))

\* a mutant of strip_namespace: the name is kept whole
strip_namespace_skipped(name) == name

\* 'if '/' in name: name = name.split('/')[-1]'
strip_namespace(name) ==
    IF contains(name, "/") THEN after_last_slash(name) ELSE name

\* format_model_name(name)
format_model_name(name) ==
    LET short == strip_namespace(name)
        tagged == contains(short, ":")
        base == IF tagged THEN split_colon(short)[1] ELSE short
        size_info == IF tagged THEN size_search(split_colon(short)[2])
                     ELSE <<>>
        spaced == replace(replace(base, <<"-">>, <<" ">>), <<"_">>, <<" ">>)
        renamed == sub_word(apply_families(spaced, 1), Uncensored, Marker)
        capitalized_words == capitalize_words(split(renamed))
    IN  [formatted_name |-> join(capitalized_words),
         size_info |-> size_info,
         original_name |-> name,
         base_family |-> IF capitalized_words = <<>> THEN <<>>
                         ELSE capitalized_words[1]]

\* extract_param_count(size_info)
extract_param_count(size_info) ==
    IF size_info = <<>> THEN <<"u", "n", "k", "n", "o", "w", "n">>
    ELSE IF lower(size_info)[Len(size_info)] = "b"
         THEN SubSeq(size_info, 1, Len(size_info) - 1)
         ELSE size_info

\* ---------------------------------------------------------------- state
VARIABLES
    conversation_history,      \* OllamaChatGUI.conversation_history
    api_url,                   \* OllamaChatGUI.api_url
    current_model,             \* OllamaChatGUI.current_model
    system_prompt,             \* OllamaChatGUI.system_prompt
    use_streaming,             \* OllamaChatGUI.use_streaming
    current_streaming_bubble,  \* OllamaChatGUI.current_streaming_bubble
    send_btn_enabled,          \* send_btn.isEnabled()
    threads,                   \* the OllamaThreads started, in start order
    event_queue,               \* signals queued to the interactive thread
    config_file,               \* ollama_config.json
    closed,                    \* the main window was closed (/bye)
    unhandled_exception,       \* an exception left a slot uncaught
    last,                      \* history variable: the handler that ran last
    track                      \* history variable: per-thread bookkeeping

vars == <<conversation_history, api_url, current_model, system_prompt,
          use_streaming, current_streaming_bubble, send_btn_enabled,
          threads, event_queue, config_file, closed, unhandled_exception,
          last, track>>

config == <<api_url, current_model, system_prompt, use_streaming>>

Message(role, content) == [role |-> role, content |-> content]

\* a mutant of Concat: the text is replaced, not extended
Concat_overwriting(a, b) == b

Concat(a, b) == a \o b

\* ---------------------------------------------------- configuration file
\* ollama_config.json: absent, or a file that holds a text
NoFile == [exists |-> FALSE, text |-> <<>>]
File(text) == [exists |-> TRUE, text |-> text]

RECURSIVE json_escape(_)
\* the characters of a str as json.dump writes them between quotes
json_escape(s) ==
    IF s = <<>> THEN <<>>
    ELSE (CASE Head(s) = "\"" -> <<"\\", "\"">>
            [] Head(s) = "\\" -> <<"\\", "\\">>
            [] Head(s) = "\n" -> <<"\\", "n">>
            [] OTHER -> <<Head(s)>>) \o json_escape(Tail(s))

\* {"system_prompt": "
ObjectStart ==
    <<"{", "\"", "s", "y", "s", "t", "e", "m", "_", "p", "r", "o", "m", "p",
      "t", "\"", ":", " ", "\"">>
\* ", "use_streaming":
ObjectMiddle ==
    <<"\"", ",", " ", "\"", "u", "s", "e", "_", "s", "t", "r", "e", "a", "m",
      "i", "n", "g", "\"", ":", " ">>

\* a mutant of json_dump: the characters of the str are written as they
\* are
json_dump_unescaped(obj) ==
    ObjectStart \o obj.system_prompt \o ObjectMiddle \o
    (IF obj.use_streaming THEN <<"t", "r", "u", "e">>
     ELSE <<"f", "a", "l", "s", "e">>) \o <<"}">>

\* json.dump({'system_prompt': ..., 'use_streaming': ...}, f): the text
\* written
json_dump(obj) ==
    ObjectStart \o json_escape(obj.system_prompt) \o ObjectMiddle \o
    (IF obj.use_streaming THEN <<"t", "r", "u", "e">>
     ELSE <<"f", "a", "l", "s", "e">>) \o <<"}">>

RECURSIVE skip_whitespace(_, _)
\* the first position from p on that holds no white space
skip_whitespace(s, p) ==
    IF p <= Len(s) /\ s[p] \in WhiteSpace THEN skip_whitespace(s, p + 1)
    ELSE p

JsonError == [ok |-> FALSE, value |-> <<>>, end |-> 0]

RECURSIVE scan_string(_, _)
\* the str whose opening quote is before p, and the position after its
\* closing quote
scan_string(s, p) ==
    IF p > Len(s) THEN JsonError
    ELSE IF s[p] = "\"" THEN [ok |-> TRUE, value |-> <<>>, end |-> p + 1]
    ELSE IF s[p] = "\n" THEN JsonError    \* a control character, not escaped
    ELSE IF s[p] = "\\"
         THEN IF p + 1 > Len(s) \/ s[p + 1] \notin {"\"", "\\", "n"}
              THEN JsonError
              ELSE LET rest == scan_string(s, p + 2)
                       c == IF s[p + 1] = "n" THEN "\n" ELSE s[p + 1]
                   IN  IF rest.ok
                       THEN [rest EXCEPT !.value = <<c>> \o @]
                       ELSE JsonError
         ELSE LET rest == scan_string(s, p + 1)
              IN  IF rest.ok THEN [rest EXCEPT !.value = <<s[p]>> \o @]
                  ELSE JsonError

\* the value at p: a str, true or false
scan_value(s, p) ==
    IF p > Len(s) THEN JsonError
    ELSE IF s[p] = "\"" THEN scan_string(s, p + 1)
    ELSE IF p + 3 <= Len(s) /\ SubSeq(s, p, p + 3) = <<"t", "r", "u", "e">>
         THEN [ok |-> TRUE, value |-> TRUE, end |-> p + 4]
    ELSE IF p + 4 <= Len(s) /\ SubSeq(s, p, p + 4) = <<"f", "a", "l", "s", "e">>
         THEN [ok |-> TRUE, value |-> FALSE, end |-> p + 5]
    ELSE JsonError

RECURSIVE scan_members(_, _, _)
\* the members of an object from p on, after those of pairs; the object
\* must end the text
scan_members(s, p, pairs) ==
    IF p > Len(s) \/ s[p] # "\"" THEN JsonError
    ELSE LET key == scan_string(s, p + 1)
             colon == skip_whitespace(s, key.end)
             val == scan_value(s, skip_whitespace(s, colon + 1))
             after == skip_whitespace(s, val.end)
             found == Append(pairs, [key |-> key.value, value |-> val.value])
         IN  IF ~key.ok \/ colon > Len(s) \/ s[colon] # ":" THEN JsonError
             ELSE IF ~val.ok \/ after > Len(s) THEN JsonError
             ELSE IF s[after] = ","
                  THEN scan_members(s, skip_whitespace(s, after + 1), found)
             ELSE IF s[after] = "}"
                     /\ skip_whitespace(s, after + 1) = Len(s) + 1
                  THEN [ok |-> TRUE, value |-> found, end |-> Len(s) + 1]
             ELSE JsonError

\* json.load(f) of a text: the members of the object it holds, in
\* order.  A text that holds no object of str and boolean members makes
\* json.load, or the lookups of load_config after it, raise or find
\* nothing: no field is assigned either way
json_load(s) ==
    LET p == skip_whitespace(s, 1)
        q == skip_whitespace(s, p + 1)
    IN  IF p > Len(s) \/ s[p] # "{" THEN JsonError
        ELSE IF q <= Len(s) /\ s[q] = "}"
                /\ skip_whitespace(s, q + 1) = Len(s) + 1
             THEN [ok |-> TRUE, value |-> <<>>, end |-> Len(s) + 1]
        ELSE scan_members(s, q, <<>>)

SystemPromptKey ==
    <<"s", "y", "s", "t", "e", "m", "_", "p", "r", "o", "m", "p", "t">>
UseStreamingKey ==
    <<"u", "s", "e", "_", "s", "t", "r", "e", "a", "m", "i", "n", "g">>

\* 'key in config'
has_key(pairs, key) == \E k \in DOMAIN pairs : pairs[k].key = key

\* config[key]: of members with the same key, the last one
get_value(pairs, key) ==
    LET k == CHOOSE k \in DOMAIN pairs :
                 /\ pairs[k].key = key
                 /\ \A j \in DOMAIN pairs : pairs[j].key = key => j <= k
    IN  pairs[k].value

\* the values __init__ holds after load_config(): those of the file's
\* fields, the values set before it for a field or a file that is
\* missing and when an exception is caught
load_config(file) ==
    LET loaded == json_load(file.text)
    IN  [system_prompt |->
             IF file.exists /\ loaded.ok
                /\ has_key(loaded.value, SystemPromptKey)
             THEN get_value(loaded.value, SystemPromptKey) ELSE <<>>,
         use_streaming |->
             IF file.exists /\ loaded.ok
                /\ has_key(loaded.value, UseStreamingKey)
             THEN get_value(loaded.value, UseStreamingKey) ELSE FALSE]

\* ollama_config.json as the program may find it at startup
InitialConfigFiles == {NoFile}

\* ------------------------------------------------------ history variable
\* last holds the text send_message was last called with and what it did
\* with it, or that the program has just been started; any other step
\* resets it.  For a call that returns a value
\* (get_predictions, format_model_name) result is that value.
Idle == [text |-> <<>>, outcome |-> "none", result |-> <<>>]
Sent(text, outcome) == [text |-> text, outcome |-> outcome, result |-> <<>>]
Returned(text, outcome, result) ==
    [text |-> text, outcome |-> outcome, result |-> result]

\* no request runs alone any more: another submit, a clear or a
\* configuration change happened
NotSolo(t) == [i \in DOMAIN t |-> [t[i] EXCEPT !.solo = FALSE, !.base = <<>>]]

\* thread i's terminal event has not been handled yet
Outstanding(i) == ~track[i].terminal

\* OllamaChatGUI.__init__ has returned, with one of files in place
InitWith(files) ==
    /\ conversation_history = <<>>
    /\ api_url = DefaultApiUrl
    /\ current_model = <<>>
    /\ config_file \in files
    /\ system_prompt = load_config(config_file).system_prompt
    /\ use_streaming = load_config(config_file).use_streaming
    /\ current_streaming_bubble = None
    /\ send_btn_enabled = TRUE
    /\ threads = <<>>
    /\ event_queue = <<>>
    /\ closed = FALSE
    /\ unhandled_exception = FALSE
    /\ last = Idle
    /\ track = <<>>

Init == InitWith(InitialConfigFiles)

\* the program is run again after its window was closed: __init__ with
\* the file the last run left
main ==
    /\ closed
    /\ conversation_history' = <<>>
    /\ api_url' = DefaultApiUrl
    /\ current_model' = <<>>
    /\ system_prompt' = load_config(config_file).system_prompt
    /\ use_streaming' = load_config(config_file).use_streaming
    /\ current_streaming_bubble' = None
    /\ send_btn_enabled' = TRUE
    /\ threads' = <<>>
    /\ event_queue' = <<>>
    /\ closed' = FALSE
    /\ unhandled_exception' = FALSE
    /\ last' = Sent(<<>>, "main")
    /\ track' = <<>>
    /\ UNCHANGED config_file

\* ------------------------------------------------------------- commands
NotACommand == "none"

\* SlashCommandHandler.commands, in definition order
commands ==
    << [command |-> <<"/", "c", "l", "e", "a", "r">>,
        description |-> "Clear the chat history",
        action |-> "clear_chat"],
       [command |-> <<"/", "m", "o", "d", "e", "l", "s">>,
        description |-> "Open model selection panel",
        action |-> "open_models"],
       [command |-> <<"/", "s", "y", "s", "t", "e", "m">>,
        description |-> "Configure system prompt",
        action |-> "open_system_prompt"],
       [command |-> <<"/", "b", "y", "e">>,
        description |-> "Exit the application",
        action |-> "exit_app"] >>

\* a mutant of process_command: the table is looked up without regard to
\* case
process_command_ignoring_case(command_text) ==
    LET command == lower(first_token(command_text))
    IN  IF \E i \in DOMAIN commands : commands[i].command = command
        THEN commands[CHOOSE i \in DOMAIN commands :
                          commands[i].command = command].action
        ELSE NotACommand

\* a mutant of process_command: the whole text, not its first word, is
\* looked up in the table
process_command_whole_text(command_text) ==
    IF \E i \in DOMAIN commands : commands[i].command = command_text
    THEN commands[CHOOSE i \in DOMAIN commands :
                      commands[i].command = command_text].action
    ELSE NotACommand

\* process_command: the action it runs, NotACommand when it returns False
process_command(command_text) ==
    LET command == first_token(command_text)
    IN  IF \E i \in DOMAIN commands : commands[i].command = command
        THEN commands[CHOOSE i \in DOMAIN commands :
                          commands[i].command = command].action
        ELSE NotACommand

\* a mutant of get_predictions: the text is not tested for its '/'
get_predictions_of_any_text(current_text) ==
    LET matching == SelectSeq(commands,
                        LAMBDA c : startswith(c.command, current_text))
    IN  [k \in DOMAIN matching |->
            [command |-> matching[k].command,
             description |-> matching[k].description]]

\* get_predictions(current_text)
get_predictions(current_text) ==
    IF ~startswith(current_text, <<"/">>) THEN <<>>
    ELSE LET matching == SelectSeq(commands,
                             LAMBDA c : startswith(c.command, current_text))
         IN  [k \in DOMAIN matching |->
                 [command |-> matching[k].command,
                  description |-> matching[k].description]]

\* -------------------------------------------------------------- dialogs
\* what open and json.dump do in save_prompt: the text is written; open
\* raises and the file is left as it was; the write raises after open
\* has emptied the file, part of the text written
Written == "written"
SaveOutcomes == {Written, "open_raises", "write_raises"}

Cancelled ==
    [accepted |-> FALSE, api_url |-> DefaultApiUrl, selected_model |-> <<>>,
     system_prompt |-> <<>>, use_streaming |-> FALSE,
     save |-> Written]

\* ModelSelectionDialog: closed without Apply, or apply_settings with a
\* model item selected
ModelDialogResults ==
    {Cancelled} \cup
    { [accepted |-> TRUE, api_url |-> u, selected_model |-> m,
       system_prompt |-> <<>>, use_streaming |-> FALSE,
       save |-> Written] :
          u \in ApiUrls, m \in ModelNames }

\* SystemPromptDialog: closed without Save, or save_prompt
SystemDialogResults ==
    {Cancelled} \cup
    { [accepted |-> TRUE, api_url |-> DefaultApiUrl, selected_model |-> <<>>,
       system_prompt |-> p, use_streaming |-> s,
       save |-> Written] :
          p \in SystemPrompts, s \in BOOLEAN }

\* the names send_message does not take for a model
InvalidModels ==
    { <<>>, <<"N", "o", " ", "m", "o", "d", "e", "l", "s">>,
      <<"F", "e", "t", "c", "h", "i", "n", "g">>, <<"E", "r", "r", "o", "r", ":">> }

\* a mutant of model_missing: every name is taken for a model
model_missing_never(model) == FALSE

\* the test of send_message before and after show_model_dialog
model_missing(model) == model \in InvalidModels

\* a mutant of show_model_dialog: the endpoint typed is taken when the
\* dialog is cancelled as well
show_model_dialog_keeping_url(result) ==
    /\ api_url' = result.api_url
    /\ current_model' =
           IF result.accepted THEN result.selected_model ELSE current_model
    /\ track' = IF result.accepted
                     /\ <<result.api_url, result.selected_model>> #
                            <<api_url, current_model>>
                 THEN NotSolo(track) ELSE track

\* show_model_dialog: the configuration it leaves
show_model_dialog(result) ==
    /\ api_url' = IF result.accepted THEN result.api_url ELSE api_url
    /\ current_model' =
           IF result.accepted THEN result.selected_model ELSE current_model
    /\ track' = IF result.accepted
                     /\ <<result.api_url, result.selected_model>> #
                            <<api_url, current_model>>
                 THEN NotSolo(track) ELSE track

\* the 'try' of save_prompt: ollama_config.json as it is left
write_config(obj, outcome) ==
    CASE outcome = Written -> File(json_dump(obj))
      [] outcome = "open_raises" -> config_file
      [] outcome = "write_raises" ->
             File(SubSeq(json_dump(obj), 1, Len(json_dump(obj)) \div 2))

\* show_system_prompt_dialog, with save_prompt stripping the text and
\* writing the file; the dialog is accepted whether the file was written
\* or not
show_system_prompt_dialog(result) ==
    LET prompt == strip(result.system_prompt)
    IN  /\ system_prompt' = IF result.accepted THEN prompt ELSE system_prompt
        /\ use_streaming' =
               IF result.accepted THEN result.use_streaming ELSE use_streaming
        /\ config_file' =
               IF result.accepted
               THEN write_config([system_prompt |-> prompt,
                                  use_streaming |-> result.use_streaming],
                                 result.save)
               ELSE config_file
        /\ track' = IF result.accepted
                         /\ <<prompt, result.use_streaming>> #
                                <<system_prompt, use_streaming>>
                     THEN NotSolo(track) ELSE track

\* a mutant of clear_chat: the session is reset, the model choice included
clear_chat_forgetting_model ==
    /\ conversation_history' = <<>>
    /\ current_streaming_bubble' =
           IF current_streaming_bubble = None THEN None ELSE Detached
    /\ track' = [i \in DOMAIN track |->
                   [NotSolo(track)[i] EXCEPT !.cleared = TRUE]]
    /\ current_model' = <<>>
    /\ UNCHANGED <<api_url, system_prompt, use_streaming>>

\* SlashCommandHandler.clear_chat: setup_welcome_view empties chat_layout
clear_chat ==
    /\ conversation_history' = <<>>
    /\ current_streaming_bubble' =
           IF current_streaming_bubble = None THEN None ELSE Detached
    /\ track' = [i \in DOMAIN track |->
                   [NotSolo(track)[i] EXCEPT !.cleared = TRUE]]
    /\ UNCHANGED config

\* ----------------------------------------------------------- send_message
OllamaThread(model, prompt, system, streaming, started) ==
    [model |-> model, prompt |-> prompt,
     system_prompt |-> system, use_streaming |-> streaming,
     pc |-> IF started THEN "post" ELSE "not_started",
     payload |-> <<>>, status_code |-> NoStatus,
     full_response |-> <<>>, chunks |-> 0]

\* the bookkeeping of a new thread: solo, it runs alone so far (no other
\* request is outstanding); base, the history its submit left; handled,
\* the chunks of it handled so far; added, the assistant messages appended
\* while handling its events; terminal, its last event was handled;
\* cleared, clear_chat ran after its submit
NewTrack(history, started) ==
    [solo |-> started /\ \A i \in DOMAIN track : ~Outstanding(i),
     base |-> IF started /\ \A i \in DOMAIN track : ~Outstanding(i)
              THEN history ELSE <<>>,
     handled |-> <<>>, added |-> 0, terminal |-> ~started,
     cleared |-> FALSE]

\* send_message returns at 'if not message'
send_empty(text) ==
    /\ last' = Sent(text, "empty")
    /\ UNCHANGED <<conversation_history, config, current_streaming_bubble,
                   send_btn_enabled, threads, event_queue, config_file,
                   closed, unhandled_exception, track>>

\* send_message runs a recognized command and returns
send_command(text, action, mres, sres) ==
    /\ last' = Sent(text, action)
    /\ UNCHANGED <<send_btn_enabled, threads, event_queue,
                   unhandled_exception>>
    /\ CASE action = "clear_chat" ->
              /\ clear_chat
              /\ UNCHANGED <<config_file, closed>>
         [] action = "open_models" ->
              /\ show_model_dialog(mres)
              /\ UNCHANGED <<conversation_history, system_prompt,
                             use_streaming, current_streaming_bubble,
                             config_file, closed>>
         [] action = "open_system_prompt" ->
              /\ show_system_prompt_dialog(sres)
              /\ UNCHANGED <<conversation_history, api_url, current_model,
                             current_streaming_bubble, closed>>
         [] action = "exit_app" ->
              /\ closed' = TRUE
              /\ UNCHANGED <<conversation_history, config, config_file,
                             current_streaming_bubble, track>>

\* send_message from the model check on
send_chat(text, message, mres, start_fails) ==
    LET asked == model_missing(current_model)
        model == IF asked /\ mres.accepted
                 THEN mres.selected_model ELSE current_model
        url == IF asked /\ mres.accepted THEN mres.api_url ELSE api_url
        history == Append(conversation_history, Message("user", message))
    IN  IF model_missing(model)
        THEN \* "Please select a valid model first." is shown, not stored
             /\ last' = Sent(text, "model_required")
             /\ UNCHANGED <<conversation_history, config,
                            current_streaming_bubble, send_btn_enabled,
                            threads, event_queue, config_file, closed,
                            unhandled_exception, track>>
        ELSE /\ Len(threads) < MaxRequests
             /\ api_url' = url
             /\ current_model' = model
             /\ conversation_history' = history
             /\ current_streaming_bubble' =
                    IF use_streaming THEN None ELSE current_streaming_bubble
             /\ send_btn_enabled' = start_fails
             /\ threads' = Append(threads,
                    OllamaThread(model, message, system_prompt,
                                 use_streaming, ~start_fails))
             /\ track' = Append(NotSolo(track),
                                NewTrack(history, ~start_fails))
             /\ last' = Sent(text, IF start_fails THEN "start_failed"
                                      ELSE "started")
             /\ UNCHANGED <<system_prompt, use_streaming, event_queue,
                            config_file, closed, unhandled_exception>>

\* OllamaChatGUI.send_message (send button, or Return in message_input)
send_message(text, mres, sres, start_fails) ==
    LET message == strip(text)
        action == IF startswith(message, <<"/">>)
                  THEN process_command(message) ELSE NotACommand
    IN  /\ ~closed
        /\ IF message = <<>> THEN send_empty(text)
           ELSE IF action # NotACommand
                THEN send_command(text, action, mres, sres)
                ELSE send_chat(text, message, mres, start_fails)

\* ------------------------------------------------------- dialog buttons
\* title_clicked, the search button and the start-up timer
title_clicked(result) ==
    /\ ~closed
    /\ show_model_dialog(result)
    /\ last' = Idle
    /\ UNCHANGED <<conversation_history, system_prompt, use_streaming,
                   current_streaming_bubble, send_btn_enabled, threads,
                   event_queue, config_file, closed, unhandled_exception>>

\* system_prompt_btn.clicked
system_prompt_btn_clicked(result) ==
    /\ ~closed
    /\ show_system_prompt_dialog(result)
    /\ last' = Idle
    /\ UNCHANGED <<conversation_history, api_url, current_model,
                   current_streaming_bubble, send_btn_enabled, threads,
                   event_queue, closed, unhandled_exception>>

\* ------------------------------------------- the command handler, called
\* SlashCommandHandler.process_command(command_text), with a text that
\* holds a token (split()[0] needs one): the action runs and True is
\* returned, or False is returned
process_command_call(command_text, mres, sres) ==
    LET action == process_command(command_text)
    IN  /\ ~closed
        /\ strip(command_text) # <<>>
        /\ IF action # NotACommand
           THEN send_command(command_text, action, mres, sres)
           ELSE /\ last' = Sent(command_text, "not_a_command")
                /\ UNCHANGED <<conversation_history, config,
                               current_streaming_bubble, send_btn_enabled,
                               threads, event_queue, config_file, closed,
                               unhandled_exception, track>>

\* SlashCommandHandler.get_predictions(current_text), called: nothing
\* changes, a list is returned
get_predictions_call(current_text) ==
    /\ ~closed
    /\ last' = Returned(current_text, "get_predictions",
                        get_predictions(current_text))
    /\ UNCHANGED <<conversation_history, config, current_streaming_bubble,
                   send_btn_enabled, threads, event_queue, config_file,
                   closed, unhandled_exception, track>>

\* format_model_name(name), called: nothing changes, a descriptor is
\* returned
format_model_name_call(name) ==
    /\ ~closed
    /\ last' = Returned(name, "format_model_name", format_model_name(name))
    /\ UNCHANGED <<conversation_history, config, current_streaming_bubble,
                   send_btn_enabled, threads, event_queue, config_file,
                   closed, unhandled_exception, track>>

\* format_model_name called with the formatted name it has just returned
format_formatted_name ==
    /\ ~closed
    /\ last.outcome = "format_model_name"
    /\ last' = Returned(last.result.formatted_name, "format_formatted_name",
                        format_model_name(last.result.formatted_name))
    /\ UNCHANGED <<conversation_history, config, current_streaming_bubble,
                   send_btn_enabled, threads, event_queue, config_file,
                   closed, unhandled_exception, track>>

\* ------------------------------------------------------ OllamaThread.run
Event(i, signal, text) == [thread |-> i, signal |-> signal, text |-> text]

\* signal.emit from a worker thread: a queued call of the connected slot
emit(i, signal, text) ==
    event_queue' = Append(event_queue, Event(i, signal, text))

\* what requests.post returns or raises
PostOutcomes == {"ok", "status_error", "network_error"}

\* the body of a 200 answer to a request with stream = false
Bodies ==
    { [kind |-> "response", text |-> FullAnswer],
      [kind |-> "no_field", text |-> <<>>],
      [kind |-> "bad_json", text |-> <<>>] }

\* the lines of a 200 answer to a request with stream = true: an object
\* with a 'response', an empty line, an object without 'response', a
\* text json.loads raises JSONDecodeError on, bytes that are no UTF-8
\* (json.loads raises UnicodeDecodeError), and whatever else makes the
\* loop raise (JSON that is no object, the connection lost)
LineKinds ==
    {"response", "empty", "no_field", "bad_json", "not_utf8", "raise"}

\* a mutant of WorkerStep: the worker ends the accumulation itself
WorkerStep_clearing_pointer ==
    /\ last' = Idle
    /\ current_streaming_bubble' = None
    /\ UNCHANGED <<conversation_history, config, send_btn_enabled,
                   config_file, closed, unhandled_exception, track>>

WorkerStep ==
    /\ last' = Idle
    /\ UNCHANGED <<conversation_history, config, current_streaming_bubble,
                   send_btn_enabled, config_file, closed,
                   unhandled_exception, track>>

ModelPlaceholder == <<"%", "m", "o", "d", "e", "l", "%">>
ParametersPlaceholder ==
    <<"%", "p", "a", "r", "a", "m", "e", "t", "e", "r", "s", "%">>

\* a mutant of process_system_prompt: the size is put in as it is found
process_system_prompt_with_size_info(t) ==
    LET model_info == format_model_name(t.model)
    IN  IF t.system_prompt = <<>> THEN <<>>
        ELSE replace(replace(t.system_prompt, ModelPlaceholder,
                             model_info.formatted_name),
                     ParametersPlaceholder, model_info.size_info)

\* process_system_prompt of the OllamaThread t
process_system_prompt(t) ==
    LET model_info == format_model_name(t.model)
        param_count == extract_param_count(model_info.size_info)
    IN  IF t.system_prompt = <<>> THEN <<>>
        ELSE replace(replace(t.system_prompt, ModelPlaceholder,
                             model_info.formatted_name),
                     ParametersPlaceholder, param_count)

\* a mutant of payload: the system field is always sent
payload_always_with_system(t) ==
    [model |-> t.model, prompt |-> t.prompt, stream |-> t.use_streaming,
     system |-> process_system_prompt(t)]

\* the payload run builds for the OllamaThread t
payload(t) ==
    IF process_system_prompt(t) # <<>>
    THEN [model |-> t.model, prompt |-> t.prompt,
          stream |-> t.use_streaming, system |-> process_system_prompt(t)]
    ELSE [model |-> t.model, prompt |-> t.prompt,
          stream |-> t.use_streaming]

\* a mutant of run_post: an answer without 'response' is reported as an
\* error
run_post_requiring_field(i, outcome, body) ==
    /\ ~closed
    /\ threads[i].pc = "post"
    /\ WorkerStep
    /\ CASE outcome = "network_error" ->
              /\ emit(i, "error_occurred", NetworkError)
              /\ threads' = [threads EXCEPT
                     ![i].pc = "finished",
                     ![i].payload = payload(threads[i])]
         [] outcome = "status_error" ->
              /\ emit(i, "error_occurred", StatusError)
              /\ threads' = [threads EXCEPT
                     ![i].pc = "finished",
                     ![i].status_code = ServerErrorStatus,
                     ![i].payload = payload(threads[i])]
         [] outcome = "ok" /\ threads[i].use_streaming ->
              /\ threads' = [threads EXCEPT
                     ![i].pc = "iter_lines", ![i].status_code = StatusOK,
                     ![i].payload = payload(threads[i])]
              /\ UNCHANGED event_queue
         [] outcome = "ok" /\ ~threads[i].use_streaming ->
              /\ threads' = [threads EXCEPT
                     ![i].pc = "finished", ![i].status_code = StatusOK,
                     ![i].payload = payload(threads[i])]
              /\ CASE body.kind = "response" ->
                        emit(i, "response_received", body.text)
                   [] body.kind = "no_field" ->
                        emit(i, "error_occurred", FormatError)
                   [] body.kind = "bad_json" ->
                        emit(i, "error_occurred", FormatError)

\* run up to the status check of requests.post, and the whole
\* non-streaming branch
run_post(i, outcome, body) ==
    /\ ~closed
    /\ threads[i].pc = "post"
    /\ WorkerStep
    /\ CASE outcome = "network_error" ->
              /\ emit(i, "error_occurred", NetworkError)
              /\ threads' = [threads EXCEPT
                     ![i].pc = "finished",
                     ![i].payload = payload(threads[i])]
         [] outcome = "status_error" ->
              /\ emit(i, "error_occurred", StatusError)
              /\ threads' = [threads EXCEPT
                     ![i].pc = "finished",
                     ![i].status_code = ServerErrorStatus,
                     ![i].payload = payload(threads[i])]
         [] outcome = "ok" /\ threads[i].use_streaming ->
              /\ threads' = [threads EXCEPT
                     ![i].pc = "iter_lines", ![i].status_code = StatusOK,
                     ![i].payload = payload(threads[i])]
              /\ UNCHANGED event_queue
         [] outcome = "ok" /\ ~threads[i].use_streaming ->
              /\ threads' = [threads EXCEPT
                     ![i].pc = "finished", ![i].status_code = StatusOK,
                     ![i].payload = payload(threads[i])]
              /\ CASE body.kind = "response" ->
                        emit(i, "response_received", body.text)
                   [] body.kind = "no_field" ->
                        emit(i, "response_received", NoResponseContent)
                   [] body.kind = "bad_json" ->
                        emit(i, "error_occurred", FormatError)

\* a mutant of run_iter_lines: an exception raised by a line is reported
\* and the loop goes on
run_iter_lines_resuming(i, kind) ==
    /\ ~closed
    /\ threads[i].pc = "iter_lines"
    /\ WorkerStep
    /\ CASE kind = "response" ->
              LET chunk == ChunkAt(threads[i].chunks + 1)
              IN  /\ threads[i].chunks < MaxChunks
                  /\ threads' = [threads EXCEPT
                         ![i].full_response = Concat(@, chunk),
                         ![i].chunks = @ + 1]
                  /\ emit(i, "streaming_chunk_received", chunk)
         [] kind \in {"empty", "no_field", "bad_json"} ->
              UNCHANGED <<threads, event_queue>>
         [] kind \in {"not_utf8", "raise"} ->
              /\ UNCHANGED threads
              /\ emit(i, "error_occurred", UnexpectedError)

\* one turn of 'for line in response.iter_lines()'
run_iter_lines(i, kind) ==
    /\ ~closed
    /\ threads[i].pc = "iter_lines"
    /\ WorkerStep
    /\ CASE kind = "response" ->
              LET chunk == ChunkAt(threads[i].chunks + 1)
              IN  /\ threads[i].chunks < MaxChunks
                  /\ threads' = [threads EXCEPT
                         ![i].full_response = Concat(@, chunk),
                         ![i].chunks = @ + 1]
                  /\ emit(i, "streaming_chunk_received", chunk)
         [] kind \in {"empty", "no_field", "bad_json"} ->
              \* 'if line', 'if response in chunk_data' or the
              \* JSONDecodeError handler: on to the next line
              UNCHANGED <<threads, event_queue>>
         [] kind \in {"not_utf8", "raise"} ->
              \* not a JSONDecodeError: 'except Exception' of run
              /\ threads' = [threads EXCEPT ![i].pc = "finished"]
              /\ emit(i, "error_occurred", UnexpectedError)

\* the stream ended: response_received.emit(full_response)
run_stream_end(i) ==
    /\ ~closed
    /\ threads[i].pc = "iter_lines"
    /\ WorkerStep
    /\ threads' = [threads EXCEPT ![i].pc = "finished"]
    /\ emit(i, "response_received", threads[i].full_response)

\* ------------------------------------------------------- event handlers
\* the slot call at the head of the interactive thread's queue
Next_event == Head(event_queue)

Handling(signal) ==
    /\ ~closed
    /\ event_queue # <<>>
    /\ Next_event.signal = signal
    /\ event_queue' = Tail(event_queue)

\* add_streaming_bubble(message): the history and pointer it leaves
add_streaming_bubble(message) ==
    /\ current_streaming_bubble' = Attached
    /\ conversation_history' =
           Append(conversation_history, Message("assistant", message))
    /\ UNCHANGED unhandled_exception

\* update_streaming_bubble(new_chunk); deleted: the ChatBubble a detached
\* pointer refers to was already destroyed by deleteLater
update_streaming_bubble(new_chunk, deleted) ==
    IF current_streaming_bubble # None
    THEN IF conversation_history = <<>>
         THEN \* conversation_history[-1] raises IndexError
              /\ unhandled_exception' = TRUE
              /\ UNCHANGED <<conversation_history, current_streaming_bubble>>
         ELSE /\ conversation_history' =
                     [conversation_history EXCEPT
                          ![Len(conversation_history)].content =
                              Concat(@, new_chunk)]
              /\ UNCHANGED current_streaming_bubble
              /\ unhandled_exception' =
                     IF current_streaming_bubble = Detached /\ deleted
                     THEN TRUE   \* chat_layout.indexOf raises RuntimeError
                     ELSE unhandled_exception
    ELSE add_streaming_bubble(new_chunk)

\* handle_streaming_chunk(chunk)
handle_streaming_chunk(deleted) ==
    LET i == Next_event.thread
        chunk == Next_event.text
    IN  /\ Handling("streaming_chunk_received")
        /\ IF current_streaming_bubble # None
           THEN update_streaming_bubble(chunk, deleted)
           ELSE add_streaming_bubble(chunk)
        /\ track' = [track EXCEPT
               ![i].handled = Append(@, chunk),
               ![i].added =
                   IF current_streaming_bubble = None THEN @ + 1 ELSE @]
        /\ last' = Idle
        /\ UNCHANGED
            <<config, send_btn_enabled, threads, config_file, closed>>

\* a mutant of handle_response: the final text is always appended
handle_response_always_appends ==
    LET i == Next_event.thread
        response == Next_event.text
    IN  /\ Handling("response_received")
        /\ conversation_history' =
               Append(conversation_history, Message("assistant", response))
        /\ current_streaming_bubble' = None
        /\ track' = [track EXCEPT ![i].terminal = TRUE, ![i].added = @ + 1]
        /\ send_btn_enabled' = TRUE
        /\ last' = Idle
        /\ UNCHANGED <<config, threads, config_file, closed,
                       unhandled_exception>>

\* handle_response(response)
handle_response ==
    LET i == Next_event.thread
        response == Next_event.text
        finalize == use_streaming /\ current_streaming_bubble # None
    IN  /\ Handling("response_received")
        /\ IF finalize
           THEN /\ current_streaming_bubble' = None
                /\ UNCHANGED conversation_history
           ELSE /\ conversation_history' =
                       Append(conversation_history,
                              Message("assistant", response))
                /\ UNCHANGED current_streaming_bubble
        /\ track' = [track EXCEPT
               ![i].terminal = TRUE,
               ![i].added = IF finalize THEN @ ELSE @ + 1]
        /\ send_btn_enabled' = TRUE
        /\ last' = Idle
        /\ UNCHANGED <<config, threads, config_file, closed,
                       unhandled_exception>>

\* a mutant of handle_error: the send control is left as it is
handle_error_leaving_button ==
    LET i == Next_event.thread
    IN  /\ Handling("error_occurred")
        /\ current_streaming_bubble' =
               IF use_streaming THEN None ELSE current_streaming_bubble
        /\ track' = [track EXCEPT ![i].terminal = TRUE]
        /\ last' = Idle
        /\ UNCHANGED <<conversation_history, config, threads, config_file,
                       closed, unhandled_exception, send_btn_enabled>>

\* handle_error(error_message): add_message_bubble shows the text and
\* stores nothing
handle_error ==
    LET i == Next_event.thread
    IN  /\ Handling("error_occurred")
        /\ current_streaming_bubble' =
               IF use_streaming THEN None ELSE current_streaming_bubble
        /\ track' = [track EXCEPT ![i].terminal = TRUE]
        /\ send_btn_enabled' = TRUE
        /\ last' = Idle
        /\ UNCHANGED <<conversation_history, config, threads, config_file,
                       closed, unhandled_exception>>

\* ----------------------------------------------------------------- Next
\* the dialog results and start outcomes send_message(text) can meet: the
\* model dialog opens for /models and for a chat text without a model,
\* the system-prompt dialog for /system, a thread starts for a chat text
Typed(text) ==
    IF strip(text) = <<>> THEN "empty"
    ELSE IF startswith(strip(text), <<"/">>)
            /\ process_command(strip(text)) # NotACommand
         THEN process_command(strip(text))
         ELSE "chat"

ModelDialogFor(text) ==
    IF \/ Typed(text) = "open_models"
       \/ Typed(text) = "chat" /\ model_missing(current_model)
    THEN ModelDialogResults ELSE {Cancelled}

SystemDialogFor(text) ==
    IF Typed(text) = "open_system_prompt"
    THEN SystemDialogResults ELSE {Cancelled}

StartFor(text) == IF Typed(text) = "chat" THEN BOOLEAN ELSE {FALSE}

\* the texts and dialog results of a chat session: messages, /clear, a
\* model chosen, streaming switched on and off
SessionTexts ==
    { <<" ", "h", "i", " ">>, <<"/", "c", "l", "e", "a", "r">> }

SessionModelResults ==
    { r \in ModelDialogResults : r.accepted /\ r.api_url = DefaultApiUrl }

SessionSystemResults ==
    { r \in SystemDialogResults : r.accepted /\ r.system_prompt = <<>> }

\* the session: requests may be started while others are outstanding
Next ==
    \/ \E text \in SessionTexts :
          \E mres \in ModelDialogFor(text) \cap
                      (SessionModelResults \cup {Cancelled}) :
              send_message(text, mres, Cancelled, FALSE)
    \/ \E result \in SessionModelResults : title_clicked(result)
    \/ \E result \in SessionSystemResults : system_prompt_btn_clicked(result)
    \/ \E i \in DOMAIN threads, outcome \in PostOutcomes, body \in Bodies :
           run_post(i, outcome, body)
    \/ \E i \in DOMAIN threads, kind \in LineKinds : run_iter_lines(i, kind)
    \/ \E i \in DOMAIN threads : run_stream_end(i)
    \/ \E deleted \in BOOLEAN : handle_streaming_chunk(deleted)
    \/ handle_response
    \/ handle_error

Spec == Init /\ [][Next]_vars

\* no request is outstanding
Quiet == \A i \in DOMAIN track : ~Outstanding(i)

\* the session with one request at a time: a text is submitted when no
\* request is outstanding
NextSolo ==
    \/ \E text \in SessionTexts :
          \E mres \in ModelDialogFor(text) \cap
                      (SessionModelResults \cup {Cancelled}) :
              /\ Typed(text) = "chat" => Quiet
              /\ send_message(text, mres, Cancelled, FALSE)
    \/ \E result \in SessionModelResults : title_clicked(result)
    \/ \E result \in SessionSystemResults : system_prompt_btn_clicked(result)
    \/ \E i \in DOMAIN threads, outcome \in PostOutcomes, body \in Bodies :
           run_post(i, outcome, body)
    \/ \E i \in DOMAIN threads, kind \in LineKinds : run_iter_lines(i, kind)
    \/ \E i \in DOMAIN threads : run_stream_end(i)
    \/ \E deleted \in BOOLEAN : handle_streaming_chunk(deleted)
    \/ handle_response
    \/ handle_error

SpecSolo == Init /\ [][NextSolo]_vars

\* every text typed, with the dialogs it opens and a thread that may fail
\* to start, one request at a time
NextSubmit ==
    \/ \E text \in InputTexts :
          \E mres \in ModelDialogFor(text) \cap
                      (SessionModelResults \cup {Cancelled}),
             sres \in SystemDialogFor(text) \cap
                      (SessionSystemResults \cup {Cancelled}),
             start_fails \in StartFor(text) :
              /\ Typed(text) = "chat" => Quiet /\ Len(threads) < MaxSubmits
              /\ send_message(text, mres, sres, start_fails)
    \/ \E i \in DOMAIN threads, outcome \in PostOutcomes, body \in Bodies :
           run_post(i, outcome, body)
    \/ \E i \in DOMAIN threads, kind \in LineKinds : run_iter_lines(i, kind)
    \/ \E i \in DOMAIN threads : run_stream_end(i)
    \/ \E deleted \in BOOLEAN : handle_streaming_chunk(deleted)
    \/ handle_response
    \/ handle_error

SpecSubmit == Init /\ [][NextSubmit]_vars

\* a worker that was started goes on to the end of run (requests.post
\* returns or raises, the stream ends), and the interactive thread's
\* event loop delivers the calls queued to it
Fairness ==
    /\ \A i \in 1..MaxRequests :
           /\ WF_vars(/\ i \in DOMAIN threads
                      /\ \E outcome \in PostOutcomes, body \in Bodies :
                             run_post(i, outcome, body))
           /\ WF_vars(i \in DOMAIN threads /\ run_stream_end(i))
    /\ WF_vars(\E deleted \in BOOLEAN : handle_streaming_chunk(deleted))
    /\ WF_vars(handle_response)
    /\ WF_vars(handle_error)

\* a session of messages whose worker may fail to start, with streaming
\* switched on and off while a request is outstanding
NextStart ==
    \/ \E text \in { <<" ", "h", "i", " ">>, <<"/", "s", "y", "s", "t", "e", "m">> } :
          \E mres \in ModelDialogFor(text) \cap
                      (SessionModelResults \cup {Cancelled}),
             sres \in SystemDialogFor(text) \cap
                      (SessionSystemResults \cup {Cancelled}),
             start_fails \in StartFor(text) :
              /\ Typed(text) = "chat" => Quiet /\ Len(threads) < MaxRequests
              /\ send_message(text, mres, sres, start_fails)
    \/ \E i \in DOMAIN threads, outcome \in PostOutcomes, body \in Bodies :
           run_post(i, outcome, body)
    \/ \E i \in DOMAIN threads, kind \in LineKinds : run_iter_lines(i, kind)
    \/ \E i \in DOMAIN threads : run_stream_end(i)
    \/ \E deleted \in BOOLEAN : handle_streaming_chunk(deleted)
    \/ handle_response
    \/ handle_error

SpecStartFair == Init /\ [][NextStart]_vars /\ Fairness

\* texts process_command is called with
CommandTexts ==
    { <<"/", "c", "l", "e", "a", "r", " ", "e", "x", "t", "r", "a", " ",
        "a", "r", "g", "s">>,
      <<"/", "C", "l", "e", "a", "r">>,
      <<"/", "c", "l", "e", "a", "r", "x">>,
      <<"c", "l", "e", "a", "r", " ", "/", "c", "l", "e", "a", "r">>,
      <<" ", "/", "m", "o", "d", "e", "l", "s">>,
      <<"/", "s", "y", "s", "t", "e", "m", " ", "x">>,
      <<"/", "b", "y", "e">> }

Hi == <<" ", "h", "i", " ">>

\* the command handler called with every text of CommandTexts, in a
\* session of chat messages, one request at a time, whose answers arrive
NextCommand ==
    \/ \E text \in CommandTexts :
          \E mres \in IF process_command(text) = "open_models"
                      THEN SessionModelResults \cup {Cancelled}
                      ELSE {Cancelled},
             sres \in IF process_command(text) = "open_system_prompt"
                      THEN SystemDialogResults ELSE {Cancelled} :
              process_command_call(text, mres, sres)
    \/ \E mres \in ModelDialogFor(Hi) \cap
                   (SessionModelResults \cup {Cancelled}) :
          /\ Quiet /\ Len(threads) < MaxSubmits
          /\ send_message(Hi, mres, Cancelled, FALSE)
    \/ \E i \in DOMAIN threads : run_post(i, "ok", CHOOSE b \in Bodies :
                                                    b.kind = "response")
    \/ \E i \in DOMAIN threads : run_iter_lines(i, "response")
    \/ \E i \in DOMAIN threads : run_stream_end(i)
    \/ \E deleted \in BOOLEAN : handle_streaming_chunk(deleted)
    \/ handle_response

SpecCommand == Init /\ [][NextCommand]_vars

\* the beginnings of the table's tokens
CommandPrefixes ==
    UNION { { SubSeq(commands[k].command, 1, n) :
                  n \in 0..Len(commands[k].command) } :
            k \in DOMAIN commands }

\* texts get_predictions is called with: a beginning of a token, as it
\* is, with a character after it, with a character before it, in capitals
PredictionTexts ==
    { p \o t : p \in CommandPrefixes,
               t \in {<<>>, <<" ">>, <<"x">>, <<"/">>} } \cup
    { h \o p : p \in CommandPrefixes, h \in {<<" ">>, <<"h">>} } \cup
    { [k \in DOMAIN p |-> upper_char(p[k])] : p \in CommandPrefixes } \cup
    { <<"h", "e", "l", "l", "o">> }

\* get_predictions called with every text of PredictionTexts
NextPredictions ==
    \E text \in PredictionTexts : get_predictions_call(text)

SpecPredictions == Init /\ [][NextPredictions]_vars

\* the workers that have not returned from run
Running == { i \in DOMAIN threads : threads[i].pc \in {"post", "iter_lines"} }

\* the workers alone: requests are started in either mode, at most two
\* running at a time, and no event is taken from the queue, so that
\* event_queue holds every event emitted, in emission order
NextWorker ==
    \/ \E mres \in ModelDialogFor(Hi) \cap
                   (SessionModelResults \cup {Cancelled}) :
          /\ Cardinality(Running) < 2
          /\ send_message(Hi, mres, Cancelled, FALSE)
    \/ \E result \in SessionSystemResults : system_prompt_btn_clicked(result)
    \/ \E i \in DOMAIN threads, outcome \in PostOutcomes, body \in Bodies :
           run_post(i, outcome, body)
    \/ \E i \in DOMAIN threads, kind \in LineKinds : run_iter_lines(i, kind)
    \/ \E i \in DOMAIN threads : run_stream_end(i)

SpecWorker == Init /\ [][NextWorker]_vars

\* raw model identifiers: namespace/ base :tag
Namespaces ==
    { <<>>,
      <<"u", "s", "e", "r", "/">>,
      <<"a", "/", "b", "/">> }

BaseNames ==
    { <<"C", "o", "d", "e", "L", "l", "a", "m", "a", "-", "7", "b", "-",
        "I", "n", "s", "t", "r", "u", "c", "t">>,
      <<"l", "l", "a", "m", "a", "2">>,
      <<"l", "l", "a", "m", "a">>,
      <<"L", "L", "A", "M", "A", "-", "3", ".", "1">>,
      <<"c", "o", "d", "e", "l", "l", "a", "m", "a">>,
      <<"t", "i", "n", "y", "l", "l", "a", "m", "a", "_", "c", "h", "a", "t">>,
      <<"w", "i", "z", "a", "r", "d", "l", "m", "-", "u", "n", "c", "e",
        "n", "s", "o", "r", "e", "d">>,
      <<"w", "i", "z", "a", "r", "d", "-", "v", "i", "c", "u", "n", "a",
        "-", "U", "n", "c", "e", "n", "s", "o", "r", "e", "d">>,
      <<"p", "h", "i">>,
      <<"m", "i", "s", "t", "r", "a", "l">>,
      <<"d", "o", "l", "p", "h", "i", "n", "-", "m", "i", "x", "t", "r",
        "a", "l">>,
      <<"m", "y", " ", "l", "l", "a", "m", "a", ".", "c", "p", "p">>,
      <<"_">>,
      <<"y", "i", "-", "3", "4", "b">>,
      <<"n", "o", "u", "s", "-", "h", "e", "r", "m", "e", "s", "2">>,
      <<"u", "n", "c", "e", "n", "s", "o", "r", "e", "d", "x">> }

Tags ==
    { <<>>,
      <<":", "l", "a", "t", "e", "s", "t">>,
      <<":", "7", "b">>,
      <<":", "1", "3", "B", "-", "q", "4">>,
      <<":", "1", ".", "5", "b">>,
      <<":", "1", "3", "b">>,
      <<":", "1", ".", "5", ".", "7", "b">>,
      <<":", "i", "n", "s", "t", "r", "u", "c", "t", "-", "7", "0", "b",
        ":", "x">>,
      <<":", "b", "7">> }

ModelIdentifiers ==
    { ns \o b \o t : ns \in Namespaces, b \in BaseNames, t \in Tags }

\* format_model_name called once, with any identifier of
\* ModelIdentifiers, and then with the name it returned
NextFormat ==
    \/ \E name \in ModelIdentifiers :
           last = Idle /\ format_model_name_call(name)
    \/ format_formatted_name

SpecFormat == Init /\ [][NextFormat]_vars

Mistral == <<"m", "i", "s", "t", "r", "a", "l">>
\* a name of separators only: its formatted name is empty
Underscore == <<"_">>
\* names a model list may offer: with a size token, without one, and
\* without a word
PayloadModels == {Llama2, Mistral, Underscore}

TemplateModel == ModelPlaceholder
TemplateBoth ==
    <<"%", "m", "o", "d", "e", "l", "%", "/", "%", "p", "a", "r", "a", "m",
      "e", "t", "e", "r", "s", "%", "/", "%", "m", "o", "d", "e", "l", "%",
      "/", "%", "p", "a", "r", "a", "m", "e", "t", "e", "r", "s", "%">>
\* texts the system-prompt dialog may hold when saved
TemplatePrompts == {<<>>, PromptX, TemplateModel, TemplateBoth}

PayloadModelResults ==
    { [accepted |-> TRUE, api_url |-> DefaultApiUrl, selected_model |-> m,
       system_prompt |-> <<>>, use_streaming |-> FALSE,
       save |-> Written] :
          m \in PayloadModels }

PayloadSystemResults ==
    { [accepted |-> TRUE, api_url |-> DefaultApiUrl, selected_model |-> <<>>,
       system_prompt |-> p, use_streaming |-> s,
       save |-> Written] :
          p \in TemplatePrompts, s \in BOOLEAN }

\* requests posted, one after the other, with every model of
\* PayloadModels, every system prompt of TemplatePrompts and either mode
NextPayload ==
    \/ \E result \in PayloadModelResults : title_clicked(result)
    \/ \E result \in PayloadSystemResults : system_prompt_btn_clicked(result)
    \/ /\ Len(threads) < MaxSubmits
       /\ \A i \in DOMAIN threads : threads[i].pc # "post"
       /\ send_message(Hi, Cancelled, Cancelled, FALSE)
    \/ \E i \in DOMAIN threads :
           run_post(i, "ok", CHOOSE b \in Bodies : b.kind = "response")

SpecPayload == Init /\ [][NextPayload]_vars

\* texts the system-prompt dialog may hold when saved: none, a letter,
\* white space around a letter, a quote and a backslash, a line break
\* within
ConfigPrompts ==
    { <<>>, PromptX, <<" ", "X", "\n">>, <<"a", "\"", "\\", "n">>,
      <<"a", "\n", "b">> }

ConfigSystemResults ==
    { [accepted |-> TRUE, api_url |-> DefaultApiUrl, selected_model |-> <<>>,
       system_prompt |-> p, use_streaming |-> s, save |-> o] :
          p \in ConfigPrompts, s \in BOOLEAN, o \in SaveOutcomes }

\* ollama_config.json as a run may find it: absent, empty, an object
\* with no field, with one of the fields, with both in another layout,
\* and a text that is no JSON
EmptyFile == File(<<>>)
EmptyObject == File(<<"{", "}">>)
PromptOnly ==
    File(<<"{", "\"", "s", "y", "s", "t", "e", "m", "_", "p", "r", "o", "m",
           "p", "t", "\"", ":", " ", "\"", "X", "\"", "}">>)
StreamingOnly ==
    File(<<"{", "\"", "u", "s", "e", "_", "s", "t", "r", "e", "a", "m", "i",
           "n", "g", "\"", ":", " ", "t", "r", "u", "e", "}">>)
OtherLayout ==
    File(<<"{", "\n", " ", "\"", "u", "s", "e", "_", "s", "t", "r", "e", "a",
           "m", "i", "n", "g", "\"", ":", "t", "r", "u", "e", " ", ",", "\n",
           " ", "\"", "s", "y", "s", "t", "e", "m", "_", "p", "r", "o", "m",
           "p", "t", "\"", " ", ":", " ", "\"", "X", "\"", "\n", "}", "\n">>)
NotJson == File(<<"n", "o", "t", " ", "j", "s", "o", "n">>)

FoundConfigFiles ==
    { NoFile, EmptyFile, EmptyObject, PromptOnly, StreamingOnly,
      OtherLayout, NotJson }

\* runs of the program: the system prompt is saved, from the button or
\* with /system, the write succeeding or not; the window is closed with
\* /bye; the program is run again
NextConfig ==
    \/ \E result \in ConfigSystemResults \cup {Cancelled} :
           system_prompt_btn_clicked(result)
    \/ \E text \in { <<"/", "b", "y", "e">>,
                     <<"/", "s", "y", "s", "t", "e", "m">> } :
          \E sres \in IF Typed(text) = "open_system_prompt"
                      THEN ConfigSystemResults ELSE {Cancelled} :
              send_message(text, Cancelled, sres, FALSE)
    \/ main

SpecConfig == InitWith(FoundConfigFiles) /\ [][NextConfig]_vars

\* the session with its settings changed: both dialogs are opened, from
\* their buttons and with their commands, and accepted with every value
\* or cancelled; messages are sent one at a time and answered or not.
\* While a request is outstanding only /system is submitted
NextSettings ==
    \/ \E text \in { Hi, <<"/", "c", "l", "e", "a", "r">>,
                     <<"/", "m", "o", "d", "e", "l", "s">>,
                     <<"/", "s", "y", "s", "t", "e", "m">> } :
          \E mres \in ModelDialogFor(text), sres \in SystemDialogFor(text) :
              /\ Typed(text) # "open_system_prompt" => Quiet
              /\ Typed(text) = "chat" => Len(threads) < MaxSubmits
              /\ send_message(text, mres, sres, FALSE)
    \/ \E result \in ModelDialogResults : Quiet /\ title_clicked(result)
    \/ \E result \in SystemDialogResults :
           Quiet /\ system_prompt_btn_clicked(result)
    \/ \E i \in DOMAIN threads, outcome \in {"ok", "network_error"} :
           run_post(i, outcome, CHOOSE b \in Bodies : b.kind = "response")
    \/ \E i \in DOMAIN threads : run_iter_lines(i, "response")
    \/ \E i \in DOMAIN threads : run_stream_end(i)
    \/ \E deleted \in BOOLEAN : handle_streaming_chunk(deleted)
    \/ handle_response
    \/ handle_error

SpecSettings == Init /\ [][NextSettings]_vars

\* =============================================================== claims
RECURSIVE Join(_)
\* c1 + ... + cn
Join(chunks) ==
    IF chunks = <<>> THEN <<>> ELSE Head(chunks) \o Join(Tail(chunks))

\* this step handles the event at the head of the queue
Handles(signal) ==
    /\ event_queue # <<>>
    /\ event_queue' = Tail(event_queue)
    /\ Next_event.signal = signal

\* this step is a call of send_message
SendStep == last'.outcome # "none"

\* this step starts a thread
StartStep ==
    /\ Len(threads') = Len(threads) + 1
    /\ threads'[Len(threads')].pc # "not_started"

IsBlank(text) == \A k \in DOMAIN text : text[k] \in WhiteSpace

\* the first character of text that is not white space is '/'
BeginsWithSlash(text) ==
    \E k \in DOMAIN text :
        /\ text[k] = "/"
        /\ \A j \in 1..(k - 1) : text[j] \in WhiteSpace

CommandTokens == { commands[k].command : k \in DOMAIN commands }

\* the first whitespace-delimited token of text is a table entry
FirstTokenIsCommand(text) ==
    \E c \in CommandTokens, k \in 0..Len(text) :
        /\ \A j \in 1..k : text[j] \in WhiteSpace
        /\ k + Len(c) <= Len(text)
        /\ SubSeq(text, k + 1, k + Len(c)) = c
        /\ \/ Len(text) = k + Len(c)
           \/ text[k + Len(c) + 1] \in WhiteSpace

\* C1: a streaming request that runs alone (no other request outstanding,
\* no other submit, clear or configuration change since its submit), of
\* which n >= 1 chunks were handled, has added to the history its submit
\* left exactly one assistant message, whose content is c1 + ... + cn;
\* this stays so when its final event is handled.
C1_StreamingAccumulation ==
    \A i \in DOMAIN track :
        (track[i].solo /\ threads[i].use_streaming
                       /\ Len(track[i].handled) >= 1)
        => conversation_history =
               Append(track[i].base,
                      Message("assistant", Join(track[i].handled)))

\* a request that ran alone had 'Hel' and 'lo' handled and then its final
\* event: the history ends with one assistant message 'Hello'
C1_Witness ==
    \E i \in DOMAIN track :
        /\ track[i].solo /\ threads[i].use_streaming /\ track[i].terminal
        /\ track[i].handled = <<Hel, Lo>>
        /\ Len(conversation_history) = Len(track[i].base) + 1
        /\ conversation_history[Len(conversation_history)] =
               Message("assistant", <<"H", "e", "l", "l", "o">>)

\* thread i is a streaming request after which another thread was started
Superseded(i) ==
    /\ threads[i].use_streaming
    /\ \E j \in DOMAIN threads : j > i /\ threads[j].pc # "not_started"

\* C2: no chunk event and no final event of a streaming request A changes
\* the history once a later request B has been started.
C2_StaleResultDiscard ==
    [][ ((Handles("streaming_chunk_received") \/ Handles("response_received"))
            /\ Superseded(Next_event.thread))
        => conversation_history' = conversation_history ]_vars

\* h2 is h1 with messages appended
Extends(h1, h2) ==
    /\ Len(h2) >= Len(h1)
    /\ SubSeq(h2, 1, Len(h1)) = h1

\* h2 is h1 with text appended to its last message, the in-progress
\* assistant message
Accumulates(h1, h2) ==
    /\ h1 # <<>>
    /\ Len(h2) = Len(h1)
    /\ SubSeq(h2, 1, Len(h1) - 1) = SubSeq(h1, 1, Len(h1) - 1)
    /\ h1[Len(h1)].role = "assistant"
    /\ h2[Len(h1)].role = "assistant"
    /\ current_streaming_bubble # None
    /\ startswith(h2[Len(h1)].content, h1[Len(h1)].content)

\* C3: apart from clear, a step only appends messages to the history or
\* appends text to its last message while that is the in-progress
\* assistant message; the content of a user message never changes.
C3_AppendOnly ==
    [][ last'.outcome # "clear_chat"
        => /\ \/ Extends(conversation_history, conversation_history')
              \/ Accumulates(conversation_history, conversation_history')
           /\ \A k \in DOMAIN conversation_history :
                  conversation_history[k].role = "user"
                  => conversation_history'[k] = conversation_history[k] ]_vars

\* C4: at most one assistant message is added to the history on behalf of
\* one request (from which the claim concludes that assistant messages
\* never outnumber user messages).
C4_OneAssistantMessagePerRequest ==
    \A i \in DOMAIN track : track[i].added <= 1

\* C5: the active accumulation pointer is null right after a final event
\* is handled, after an error event is handled and after a submit that
\* starts a request, whatever use_streaming is.
C5_PointerCleared ==
    [][ (Handles("response_received") \/ Handles("error_occurred")
            \/ StartStep)
        => current_streaming_bubble' = None ]_vars

\* C6: handling an error event appends exactly one assistant message that
\* carries the error text and clears the active accumulation.
C6_ErrorAppended ==
    [][ Handles("error_occurred")
        => /\ Len(conversation_history') = Len(conversation_history) + 1
           /\ Extends(conversation_history, conversation_history')
           /\ conversation_history'[Len(conversation_history')] \in
                  { Message("assistant", Next_event.text),
                    Message("assistant", ErrorPrefix \o Next_event.text) }
           /\ current_streaming_bubble' = None ]_vars

\* C7: handling the final result of a request started in non-streaming
\* mode appends exactly one assistant message holding the full response
\* text and changes no other message.
C7_NonStreamingFinal ==
    [][ (Handles("response_received")
            /\ ~threads[Next_event.thread].use_streaming)
        => conversation_history' =
               Append(conversation_history,
                      Message("assistant", Next_event.text)) ]_vars

\* the claim C8 as stated: a chat text submitted while no model is
\* configured appends nothing to the history and starts no thread.
C8_AsStated ==
    [][ (SendStep /\ ~IsBlank(last'.text) /\ ~BeginsWithSlash(last'.text)
            /\ current_model = <<>>)
        => /\ conversation_history' = conversation_history
           /\ threads' = threads ]_vars

\* C8 (amended): a chat text submitted while no model is configured opens
\* the model dialog; when the dialog closes without a model chosen, the
\* text is not sent: nothing is appended to the history and no thread is
\* started; when a model is chosen there, the text is sent with it.
C8_ModelRequired ==
    [][ (SendStep /\ ~IsBlank(last'.text) /\ ~BeginsWithSlash(last'.text)
            /\ current_model = <<>>)
        => IF current_model' = <<>>
           THEN /\ last'.outcome = "model_required"
                /\ conversation_history' = conversation_history
                /\ threads' = threads
                /\ event_queue' = event_queue
           ELSE /\ conversation_history' =
                       Append(conversation_history,
                              Message("user", strip(last'.text)))
                /\ Len(threads') = Len(threads) + 1
                /\ threads'[Len(threads')].model = current_model' ]_vars

\* 'hi' was submitted without a model and the dialog was dismissed
C8_Witness ==
    /\ last.outcome = "model_required"
    /\ last.text = <<" ", "h", "i", " ">>
    /\ current_model = <<>>
    /\ conversation_history = <<>>
    /\ threads = <<>>

\* C9: send_message with an empty or whitespace-only text changes nothing:
\* history, configuration, accumulation pointer, send control, threads
\* and their queued events.
C9_BlankIsNoOp ==
    [][ (SendStep /\ IsBlank(last'.text))
        => UNCHANGED <<conversation_history, config,
                       current_streaming_bubble, send_btn_enabled,
                       threads, event_queue>> ]_vars

\* a whitespace-only text was submitted while a request was streaming
C9_Witness ==
    /\ last.outcome = "empty"
    /\ last.text = <<" ", "\n">>
    /\ \E i \in DOMAIN threads : threads[i].pc = "iter_lines"
    /\ current_streaming_bubble = Attached
    /\ ~send_btn_enabled

\* the claim C10 as stated: a text that begins with '/' never appends a
\* user message and never starts a thread.
C10_AsStated ==
    [][ (SendStep /\ BeginsWithSlash(last'.text))
        => /\ conversation_history' \in {conversation_history, <<>>}
           /\ threads' = threads ]_vars

\* C10 (amended): a text whose first whitespace-delimited token is a table
\* command runs that command and returns: no user message is appended and
\* no thread is started.  A text that begins with '/' and whose first
\* token is not a table command is handled as a chat text: with a model
\* configured, it is appended as a user message and a thread is started.
C10_CommandDispatch ==
    [][ (SendStep /\ BeginsWithSlash(last'.text))
        => IF FirstTokenIsCommand(last'.text)
           THEN /\ conversation_history' \in {conversation_history, <<>>}
                /\ threads' = threads
                /\ last'.outcome \in
                       {"clear_chat", "open_models", "open_system_prompt",
                        "exit_app"}
           ELSE current_model' # <<>>
                => /\ conversation_history' =
                          Append(conversation_history,
                                 Message("user", strip(last'.text)))
                   /\ Len(threads') = Len(threads) + 1 ]_vars

\* ' /clear x' was submitted with messages in the history and emptied it
C10_Witness ==
    /\ last.outcome = "clear_chat"
    /\ last.text = <<" ", "/", "c", "l", "e", "a", "r", " ", "x">>
    /\ conversation_history = <<>>
    /\ threads # <<>>

\* the first whitespace-delimited token of text is c
FirstTokenIs(text, c) ==
    \E k \in 0..Len(text) :
        /\ \A j \in 1..k : text[j] \in WhiteSpace
        /\ k + Len(c) <= Len(text)
        /\ SubSeq(text, k + 1, k + Len(c)) = c
        /\ \/ Len(text) = k + Len(c)
           \/ text[k + Len(c) + 1] \in WhiteSpace

\* this step is a call of process_command
CommandCall ==
    last'.outcome \in {"clear_chat", "open_models", "open_system_prompt",
                       "exit_app", "not_a_command"}

\* C11: process_command(text) runs an action and reports success exactly
\* when the first whitespace-delimited token of text is a table entry,
\* letter for letter; the action is that entry's, whatever follows the
\* token ('/clear' empties the history, '/bye' closes the window); with
\* any other first token nothing changes.
C11_FirstTokenDecides ==
    [][ CommandCall
        => /\ (last'.outcome # "not_a_command")
                  <=> FirstTokenIsCommand(last'.text)
           /\ FirstTokenIs(last'.text, <<"/", "c", "l", "e", "a", "r">>)
              => /\ last'.outcome = "clear_chat"
                 /\ conversation_history' = <<>>
           /\ FirstTokenIs(last'.text, <<"/", "m", "o", "d", "e", "l", "s">>)
              => last'.outcome = "open_models"
           /\ FirstTokenIs(last'.text, <<"/", "s", "y", "s", "t", "e", "m">>)
              => last'.outcome = "open_system_prompt"
           /\ FirstTokenIs(last'.text, <<"/", "b", "y", "e">>)
              => last'.outcome = "exit_app" /\ closed'
           /\ ~FirstTokenIsCommand(last'.text)
              => UNCHANGED <<conversation_history, config,
                             current_streaming_bubble, send_btn_enabled,
                             threads, event_queue, config_file, closed,
                             unhandled_exception, track>> ]_vars

\* process_command('/clear extra args') emptied the history while a
\* request was outstanding
C11_Witness ==
    /\ last.outcome = "clear_chat"
    /\ last.text =
        <<"/", "c", "l", "e", "a", "r", " ", "e", "x", "t", "r", "a", " ",
          "a", "r", "g", "s">>
    /\ conversation_history = <<>>
    /\ \E i \in DOMAIN track : Outstanding(i)

\* C13: clear leaves the history empty and api_url, current_model,
\* system_prompt and use_streaming as they were, also while a request is
\* outstanding.
C13_ClearKeepsConfiguration ==
    [][ last'.outcome = "clear_chat"
        => /\ conversation_history' = <<>>
           /\ api_url' = api_url
           /\ current_model' = current_model
           /\ system_prompt' = system_prompt
           /\ use_streaming' = use_streaming ]_vars

\* the history was cleared while a request was outstanding, with a model,
\* a system prompt and streaming configured
C13_Witness ==
    /\ last.outcome = "clear_chat"
    /\ conversation_history = <<>>
    /\ current_model = Llama2
    /\ system_prompt = PromptX
    /\ use_streaming
    /\ \E i \in DOMAIN track : Outstanding(i)

\* SlashCommandHandler.commands as the claim C12 lists it
TableOrder ==
    << [command |-> <<"/", "c", "l", "e", "a", "r">>,
        description |-> "Clear the chat history"],
       [command |-> <<"/", "m", "o", "d", "e", "l", "s">>,
        description |-> "Open model selection panel"],
       [command |-> <<"/", "s", "y", "s", "t", "e", "m">>,
        description |-> "Configure system prompt"],
       [command |-> <<"/", "b", "y", "e">>,
        description |-> "Exit the application"] >>

\* text is a beginning of token
IsPrefixOf(text, token) ==
    /\ Len(text) <= Len(token)
    /\ \A k \in DOMAIN text : text[k] = token[k]

\* seq holds, in their order, exactly the entries of TableOrder that
\* text is a beginning of
IsSelection(seq, text) ==
    \E pick \in SUBSET DOMAIN TableOrder :
        /\ \A k \in DOMAIN TableOrder :
               k \in pick <=> IsPrefixOf(text, TableOrder[k].command)
        /\ Len(seq) = Cardinality(pick)
        /\ \A n \in DOMAIN seq :
               \E k \in pick :
                   /\ seq[n] = TableOrder[k]
                   /\ Cardinality({j \in pick : j < k}) = n - 1

\* C12: get_predictions(text) returns the empty sequence when text does
\* not begin with '/', otherwise exactly the table entries whose token
\* begins with text, each with its description, in the order /clear,
\* /models, /system, /bye.
C12_Predictions ==
    last.outcome = "get_predictions"
    => IF last.text = <<>> \/ Head(last.text) # "/"
       THEN last.result = <<>>
       ELSE IsSelection(last.result, last.text)

\* get_predictions('/') returned all four entries, in table order
C12_Witness ==
    /\ last.outcome = "get_predictions"
    /\ last.text = <<"/">>
    /\ Len(last.result) = 4
    /\ last.result[1].command = <<"/", "c", "l", "e", "a", "r">>
    /\ last.result[4].description = "Exit the application"

\* the events thread i has emitted, in emission order (under SpecWorker,
\* where none is taken from the queue)
EventsOf(i) == SelectSeq(event_queue, LAMBDA e : e.thread = i)

RECURSIVE TextsOf(_)
\* the texts the events ev carry
TextsOf(ev) ==
    IF ev = <<>> THEN <<>> ELSE <<Head(ev).text>> \o TextsOf(Tail(ev))

IsChunk(e) == e.signal = "streaming_chunk_received"

IsTerminal(e) == e.signal \in {"response_received", "error_occurred"}

\* C14: the events of one worker are chunk events (only of a streaming
\* request, in the order of the lines) followed, once run has returned,
\* by exactly one final or error event, after which nothing is emitted.
C14_EventSequence ==
    \A i \in DOMAIN threads :
        LET ev == EventsOf(i)
        IN  /\ \A k \in 1..(Len(ev) - 1) : IsChunk(ev[k])
            /\ \A k \in DOMAIN ev :
                   IsChunk(ev[k]) => /\ threads[i].use_streaming
                                     /\ ev[k].text = ChunkAt(k)
            /\ threads[i].pc = "finished"
               => ev # <<>> /\ IsTerminal(ev[Len(ev)])
            /\ threads[i].pc # "finished"
               => \A k \in DOMAIN ev : IsChunk(ev[k])

\* a worker emitted two chunks and then, a line having raised, an error
C14_Witness ==
    \E i \in DOMAIN threads :
        /\ threads[i].pc = "finished"
        /\ Len(EventsOf(i)) = 3
        /\ IsChunk(EventsOf(i)[2])
        /\ EventsOf(i)[3].signal = "error_occurred"

\* C15: the text of the final event of a streaming request answered with
\* status 200 is the concatenation, in emission order, of the chunks it
\* emitted.
C15_FinalIsConcatenation ==
    \A i \in DOMAIN threads :
        LET ev == EventsOf(i)
        IN  (/\ threads[i].use_streaming
             /\ threads[i].status_code = StatusOK
             /\ ev # <<>>
             /\ ev[Len(ev)].signal = "response_received")
            => ev[Len(ev)].text = Join(TextsOf(SubSeq(ev, 1, Len(ev) - 1)))

\* a worker emitted 'Hel', 'lo' and the final event 'Hello'
C15_Witness ==
    \E i \in DOMAIN threads :
        /\ threads[i].use_streaming
        /\ Len(EventsOf(i)) = 3
        /\ EventsOf(i)[1].text = Hel
        /\ EventsOf(i)[2].text = Lo
        /\ EventsOf(i)[3] =
               Event(i, "response_received", <<"H", "e", "l", "l", "o">>)

\* sub occurs in text, at or after position from
OccursFrom(text, sub, from) ==
    \E k \in from..(Len(text) - Len(sub) + 1) :
        SubSeq(text, k, k + Len(sub) - 1) = sub

\* text holds the status code and, after it, the body text
CarriesStatus(text, status_code, body) ==
    \E k \in 1..(Len(text) - Len(status_code) + 1) :
        /\ SubSeq(text, k, k + Len(status_code) - 1) = status_code
        /\ OccursFrom(text, body, k + Len(status_code))

\* C16: a request answered with a status other than 200 emits exactly one
\* event, an error event that carries the status code and the body text:
\* no chunk event and no final event, in either mode.
C16_StatusError ==
    \A i \in DOMAIN threads :
        threads[i].status_code \notin {NoStatus, StatusOK}
        => /\ Len(EventsOf(i)) = 1
           /\ EventsOf(i)[1].signal = "error_occurred"
           /\ CarriesStatus(EventsOf(i)[1].text, threads[i].status_code,
                            ErrorText)

\* a streaming and a non-streaming request were both answered with 500
C16_Witness ==
    \E i, j \in DOMAIN threads :
        /\ threads[i].use_streaming /\ ~threads[j].use_streaming
        /\ threads[i].status_code = ServerErrorStatus
        /\ threads[j].status_code = ServerErrorStatus
        /\ EventsOf(i) = <<Event(i, "error_occurred", StatusError)>>
        /\ EventsOf(j) = <<Event(j, "error_occurred", StatusError)>>

CodeLlamaLatest ==
    <<"u", "s", "e", "r", "/", "C", "o", "d", "e", "L", "l", "a", "m", "a",
      "-", "7", "b", "-", "I", "n", "s", "t", "r", "u", "c", "t", ":", "l",
      "a", "t", "e", "s", "t">>
CodeLlama7b ==
    <<"u", "s", "e", "r", "/", "C", "o", "d", "e", "L", "l", "a", "m", "a",
      "-", "7", "b", "-", "I", "n", "s", "t", "r", "u", "c", "t", ":", "7",
      "b">>
CodeLlamaName ==
    <<"C", "o", "d", "e", "L", "l", "a", "m", "a", " ", "7", "b", " ", "I",
      "n", "s", "t", "r", "u", "c", "t">>

\* the claim C19 as stated: format('user/CodeLlama-7b-Instruct:latest')
\* gives a formatted name that holds 'CodeLlama' and the size hint '7'.
C19_AsStated ==
    (last.outcome = "format_model_name" /\ last.text = CodeLlamaLatest)
    => /\ OccursFrom(last.result.formatted_name,
                     <<"C", "o", "d", "e", "L", "l", "a", "m", "a">>, 1)
       /\ <<"7">> \in { last.result.size_info,
                        extract_param_count(last.result.size_info) }

\* C19 (amended): format('user/CodeLlama-7b-Instruct:latest') gives the
\* formatted name 'CodeLlama 7b Instruct' and an empty size hint
\* ('unknown' as a parameter count): a size token is looked for in the
\* tag only, and the same name with the tag ':7b' gives '7b' ('7').
C19_CodeLlama ==
    last.outcome = "format_model_name"
    => /\ last.text = CodeLlamaLatest
          => /\ last.result.formatted_name = CodeLlamaName
             /\ last.result.size_info = <<>>
             /\ extract_param_count(last.result.size_info) =
                    <<"u", "n", "k", "n", "o", "w", "n">>
       /\ last.text = CodeLlama7b
          => /\ last.result.formatted_name = CodeLlamaName
             /\ last.result.size_info = <<"7", "b">>
             /\ extract_param_count(last.result.size_info) = <<"7">>

\* format('user/CodeLlama-7b-Instruct:latest') was called
C19_Witness ==
    /\ last.outcome = "format_model_name"
    /\ last.text = CodeLlamaLatest
    /\ last.result.base_family =
           <<"C", "o", "d", "e", "L", "l", "a", "m", "a">>

\* C20: formatting a formatted name returns it unchanged.
C20_Idempotent ==
    last.outcome = "format_formatted_name"
    => last.result.formatted_name = last.text

\* the formatted name 'Wizard Vicuna (marker)' was formatted again
C20_Witness ==
    /\ last.outcome = "format_formatted_name"
    /\ last.text = <<"W", "i", "z", "a", "r", "d", " ",
                     "V", "i", "c", "u", "n", "a", " ">> \o Marker
    /\ last.result.formatted_name = last.text

\* this step is thread i's requests.post: its payload is built
Posts(i) ==
    /\ DOMAIN threads[i].payload = {}
    /\ DOMAIN threads'[i].payload # {}

\* the thread this step starts was given the session's model, system
\* prompt and streaming flag
StartedWithSession ==
    StartStep
    => /\ threads'[Len(threads')].model = current_model'
       /\ threads'[Len(threads')].system_prompt = system_prompt
       /\ threads'[Len(threads')].use_streaming = use_streaming

RECURSIVE Substituted(_, _, _)
\* template with every %model% replaced by name and every %parameters%
\* by count
Substituted(template, name, count) ==
    IF template = <<>> THEN <<>>
    ELSE IF startswith(template, <<"%", "m", "o", "d", "e", "l", "%">>)
    THEN name \o Substituted(SubSeq(template, 8, Len(template)), name, count)
    ELSE IF startswith(template,
        <<"%", "p", "a", "r", "a", "m", "e", "t", "e", "r", "s", "%">>)
    THEN count \o Substituted(SubSeq(template, 13, Len(template)), name, count)
    ELSE <<Head(template)>> \o Substituted(Tail(template), name, count)

\* the size hint of model without its b/B suffix, 'unknown' without one
ParameterCount(model) ==
    LET size == format_model_name(model).size_info
    IN  IF size = <<>> THEN <<"u", "n", "k", "n", "o", "w", "n">>
        ELSE IF size[Len(size)] \in {"b", "B"}
             THEN SubSeq(size, 1, Len(size) - 1)
             ELSE size

\* the claim C17 as stated: the payload has a 'system' field exactly when
\* the system prompt the request was submitted with is not empty.
C17_AsStated ==
    [][ /\ StartedWithSession
        /\ \A i \in DOMAIN threads :
               Posts(i) => (("system" \in DOMAIN threads'[i].payload)
                               <=> threads[i].system_prompt # <<>>) ]_vars

\* C17 (amended): the payload has a 'system' field exactly when the system
\* prompt the request was submitted with, after substitution, is not
\* empty; with an empty system prompt the payload has exactly the fields
\* model, prompt and stream, and stream is the flag the request was
\* started with.
C17_SystemField ==
    [][ /\ StartedWithSession
        /\ \A i \in DOMAIN threads :
               Posts(i)
               => LET t == threads[i]
                      sent == threads'[i].payload
                      system == Substituted(t.system_prompt,
                                    format_model_name(t.model).formatted_name,
                                    ParameterCount(t.model))
                  IN  /\ ("system" \in DOMAIN sent) <=> system # <<>>
                      /\ t.system_prompt = <<>>
                         => DOMAIN sent = {"model", "prompt", "stream"}
                      /\ sent.model = t.model
                      /\ sent.prompt = t.prompt
                      /\ sent.stream = t.use_streaming ]_vars

\* a streaming request submitted with an empty system prompt was posted
C17_Witness ==
    \E i \in DOMAIN threads :
        /\ threads[i].system_prompt = <<>>
        /\ threads[i].use_streaming
        /\ DOMAIN threads[i].payload = {"model", "prompt", "stream"}
        /\ threads[i].payload.stream

\* C18: the system field of the payload is the system prompt with every
\* %model% replaced by the formatted name of the model the request was
\* submitted with and every %parameters% by that model's size hint
\* without its b/B suffix, or by 'unknown' when it has none; the size
\* hint itself is then empty.
C18_Substitution ==
    [][ /\ StartedWithSession
        /\ \A i \in DOMAIN threads :
               (Posts(i) /\ "system" \in DOMAIN threads'[i].payload)
               => LET t == threads[i]
                      info == format_model_name(t.model)
                  IN  /\ threads'[i].payload.system =
                             Substituted(t.system_prompt, info.formatted_name,
                                         ParameterCount(t.model))
                      /\ ~OccursFrom(threads'[i].payload.system,
                                     <<"%", "m", "o", "d", "e", "l", "%">>, 1)
                      /\ ~OccursFrom(threads'[i].payload.system,
                                     <<"%", "p", "a", "r", "a", "m", "e",
                                       "t", "e", "r", "s", "%">>, 1)
                      /\ ParameterCount(t.model) =
                             <<"u", "n", "k", "n", "o", "w", "n">>
                         => info.size_info = <<>> ]_vars

\* a request for llama2:13b was posted with the system prompt
\* '%model%/%parameters%/%model%/%parameters%'
C18_Witness ==
    \E i \in DOMAIN threads :
        /\ threads[i].model = Llama2
        /\ threads[i].system_prompt = TemplateBoth
        /\ "system" \in DOMAIN threads[i].payload
        /\ threads[i].payload.system =
               <<"L", "l", "a", "m", "a", "2", "/", "1", "3", "/",
                 "L", "l", "a", "m", "a", "2", "/", "1", "3">>

\* the objects save_prompt may write
SavedConfigs ==
    { [system_prompt |-> strip(p), use_streaming |-> s] :
          p \in ConfigPrompts, s \in BOOLEAN }

\* files json.load raises on: empty, no JSON, or what a write that
\* raised has left
BrokenFiles ==
    {EmptyFile, NotJson} \cup
    { write_config(obj, "write_raises") : obj \in SavedConfigs }

\* this step is a start of the program
Startup == closed /\ ~closed'

\* C21: a start of the program with the file a save has written gives the
\* session the prompt and the streaming flag that were saved; with no
\* file or an object with no field it gives the empty prompt and
\* streaming off, with one field that field and the other's default;
\* with a file that cannot be loaded it gives both defaults and the
\* session starts all the same; a save whose write fails still closes
\* the dialog with its values taken into the session.
C21_ConfigRoundTrip ==
    [][ /\ Startup =>
            /\ ~closed' /\ ~unhandled_exception' /\ send_btn_enabled'
            /\ config_file' = config_file
            /\ \A obj \in SavedConfigs :
                   config_file = File(json_dump(obj)) =>
                       /\ system_prompt' = obj.system_prompt
                       /\ use_streaming' = obj.use_streaming
            /\ config_file \in {NoFile, EmptyObject} \cup BrokenFiles =>
                   system_prompt' = <<>> /\ use_streaming' = FALSE
            /\ config_file = PromptOnly =>
                   system_prompt' = PromptX /\ use_streaming' = FALSE
            /\ config_file = StreamingOnly =>
                   system_prompt' = <<>> /\ use_streaming' = TRUE
            /\ config_file = OtherLayout =>
                   system_prompt' = PromptX /\ use_streaming' = TRUE
        /\ \A result \in ConfigSystemResults :
               system_prompt_btn_clicked(result) =>
                   /\ system_prompt' = strip(result.system_prompt)
                   /\ use_streaming' = result.use_streaming
                   /\ ~closed' /\ ~unhandled_exception'
                   /\ result.save = Written =>
                          config_file' = File(json_dump(
                              [system_prompt |-> system_prompt',
                               use_streaming |-> use_streaming']))
      ]_vars

\* the program was started with the file a save has written, whose
\* prompt holds a quote and a backslash, streaming on
C21_Witness ==
    /\ last.outcome = "main"
    /\ system_prompt = <<"a", "\"", "\\", "n">>
    /\ use_streaming
    /\ config_file = File(json_dump([system_prompt |-> system_prompt,
                                     use_streaming |-> TRUE]))

\* C22: handling a chunk, final or error event leaves no exception
\* unhandled, and a chunk handled while an accumulation is active finds a
\* history that is not empty and ends with an assistant message.
C22_NoFatalError ==
    [][ /\ (Handles("streaming_chunk_received")
               \/ Handles("response_received")
               \/ Handles("error_occurred"))
            => ~unhandled_exception'
        /\ (Handles("streaming_chunk_received")
               /\ current_streaming_bubble # None)
            => /\ conversation_history # <<>>
               /\ conversation_history[Len(conversation_history)].role =
                      "assistant"
      ]_vars

\* this step accepts the model dialog, opened from the title or by
\* send_message, with a model item of the list selected
ModelAccepted ==
    \E result \in ModelDialogResults :
        /\ result.accepted
        /\ result.selected_model \in ModelNames
        /\ api_url' = result.api_url
        /\ current_model' = result.selected_model
        /\ \/ title_clicked(result)
           \/ \E text \in InputTexts :
                  /\ Typed(text) \in {"open_models", "chat"}
                  /\ send_message(text, result, Cancelled, FALSE)

\* this step saves the system-prompt dialog, opened from its button or
\* with /system
PromptSaved ==
    \E result \in SystemDialogResults :
        /\ result.accepted
        /\ \/ system_prompt_btn_clicked(result)
           \/ \E text \in InputTexts :
                  /\ Typed(text) = "open_system_prompt"
                  /\ send_message(text, Cancelled, result, FALSE)

\* this step is a step of a worker's run
RunStep == threads' # threads /\ Len(threads') = Len(threads)

\* C23 as stated: the model and endpoint change only when the model dialog
\* is accepted, the prompt and the streaming flag only when the
\* system-prompt dialog is saved, and a submit of a message, a clear and a
\* worker event change none of the four.
C23_AsStated ==
    [][ /\ <<api_url, current_model>>' # <<api_url, current_model>>
            => ModelAccepted
        /\ <<system_prompt, use_streaming>>' # <<system_prompt, use_streaming>>
            => PromptSaved
        /\ last'.outcome \in {"started", "start_failed", "model_required",
                              "empty", "clear_chat"}
            => UNCHANGED config
        /\ (Handles("streaming_chunk_received")
               \/ Handles("response_received") \/ Handles("error_occurred")
               \/ RunStep)
            => UNCHANGED config
      ]_vars

\* C23: as stated, but for the submit of a message with no model
\* configured: it opens the model dialog itself, and the model and the
\* endpoint chosen there are taken before the message is sent.  The model
\* is at all times none or a name of the model list.
C23_ExplicitChanges ==
    [][ /\ <<api_url, current_model>>' # <<api_url, current_model>>
            => ModelAccepted
        /\ <<system_prompt, use_streaming>>' # <<system_prompt, use_streaming>>
            => PromptSaved
        /\ last'.outcome \in {"model_required", "empty", "clear_chat"}
            => UNCHANGED config
        /\ last'.outcome \in {"started", "start_failed"}
            => /\ UNCHANGED <<system_prompt, use_streaming>>
               /\ ~model_missing(current_model)
                      => UNCHANGED <<api_url, current_model>>
        /\ (Handles("streaming_chunk_received")
               \/ Handles("response_received") \/ Handles("error_occurred")
               \/ RunStep)
            => UNCHANGED config
        /\ current_model' \in {<<>>} \cup ModelNames
      ]_vars

\* a message was submitted with no model configured, and sent with the
\* model and the endpoint chosen in the dialog the submit opened
C23_Witness ==
    /\ last.outcome = "started"
    /\ Len(threads) = 1
    /\ current_model = Llama2
    /\ api_url # DefaultApiUrl
    /\ system_prompt = PromptX

\* C24: a line of a streaming answer that does not parse as JSON, for its
\* syntax or for its bytes, is skipped: no event is emitted for it, the
\* text accumulated is the same, and the worker goes on with the lines
\* that follow.
C24_BadLineSkipped ==
    [][ \A i \in DOMAIN threads, kind \in {"bad_json", "not_utf8"} :
            run_iter_lines(i, kind)
                => /\ UNCHANGED event_queue
                   /\ threads'[i].full_response = threads[i].full_response
                   /\ threads'[i].pc = "iter_lines"
      ]_vars

\* the part of name after its last '/', the whole of it when it has none
ShortName(name) ==
    LET slashes == { k \in DOMAIN name : name[k] = "/" }
    IN  IF slashes = {} THEN name
        ELSE SubSeq(name, (CHOOSE k \in slashes :
                               \A j \in slashes : j <= k) + 1, Len(name))

\* the part of ShortName(name) before its first ':', and the part after
HasTag(name) == \E k \in DOMAIN ShortName(name) : ShortName(name)[k] = ":"

FirstColon(name) ==
    CHOOSE k \in DOMAIN ShortName(name) :
        /\ ShortName(name)[k] = ":"
        /\ \A j \in 1..(k - 1) : ShortName(name)[j] # ":"

BasePart(name) ==
    IF HasTag(name) THEN SubSeq(ShortName(name), 1, FirstColon(name) - 1)
    ELSE ShortName(name)

TagRegion(name) ==
    IF HasTag(name)
    THEN SubSeq(ShortName(name), FirstColon(name) + 1, Len(ShortName(name)))
    ELSE <<>>

AllDigits(t) == t # <<>> /\ \A k \in DOMAIN t : t[k] \in Digits

\* t is digits, optionally '.' and digits, then b or B
IsSizeToken(t) ==
    /\ Len(t) >= 2
    /\ t[Len(t)] \in {"b", "B"}
    /\ LET number == SubSeq(t, 1, Len(t) - 1)
       IN  \/ AllDigits(number)
           \/ \E d \in DOMAIN number :
                  /\ number[d] = "."
                  /\ AllDigits(SubSeq(number, 1, d - 1))
                  /\ AllDigits(SubSeq(number, d + 1, Len(number)))

\* a size token begins at p in t
TokenAt(t, p) == \E q \in p..Len(t) : IsSizeToken(SubSeq(t, p, q))

EmitsAtMostOne ==
    \/ event_queue' = event_queue
    \/ /\ Len(event_queue') = Len(event_queue) + 1
       /\ SubSeq(event_queue', 1, Len(event_queue)) = event_queue

\* C26: a step of a worker leaves the history and the accumulation
\* pointer as they are and at most puts one event in the queue; the
\* history and the pointer change only in a step that is one call of
\* send_message or one handler taking one event from the queue, in which
\* no worker moves.
C26_SingleWriter ==
    [][ /\ RunStep
            => /\ UNCHANGED <<conversation_history, current_streaming_bubble>>
               /\ EmitsAtMostOne
        /\ <<conversation_history, current_streaming_bubble>>' #
               <<conversation_history, current_streaming_bubble>>
            => /\ \/ SendStep /\ UNCHANGED event_queue
                  \/ Handles("streaming_chunk_received")
                  \/ Handles("response_received")
                  \/ Handles("error_occurred")
               /\ \A i \in DOMAIN threads : threads'[i] = threads[i]
      ]_vars

\* a worker has emitted its second chunk and its final event while the
\* first chunk, handled, is being accumulated
C26_Witness ==
    /\ current_streaming_bubble = Attached
    /\ \E i \in DOMAIN threads :
           /\ threads[i].pc = "finished"
           /\ threads[i].chunks = 2
           /\ track[i].handled = <<Hel>>
    /\ Len(event_queue) = 2

\* C27: when the final event of a request is handled, and clear has not
\* run since the request was submitted, the history holds an assistant
\* message whose content is the full text of the answer.
C27_NoResponseLost ==
    [][ (Handles("response_received") /\ ~track[Next_event.thread].cleared)
        => \E k \in DOMAIN conversation_history' :
               /\ conversation_history'[k].role = "assistant"
               /\ conversation_history'[k].content = Next_event.text
      ]_vars

\* C28: a submit that starts a worker disables the send control, one
\* whose worker cannot be started leaves it enabled, handling a final or
\* an error event enables it, and a send control that is disabled is
\* enabled again later (or the window is closed), the worker going on to
\* its terminal event and the queued events being handled.
C28_SendReEnabled ==
    /\ [][ /\ last'.outcome = "started" => ~send_btn_enabled'
           /\ last'.outcome = "start_failed" => send_btn_enabled'
           /\ (Handles("response_received") \/ Handles("error_occurred"))
               => send_btn_enabled'
         ]_vars
    /\ (~send_btn_enabled ~> (send_btn_enabled \/ closed))

\* the first request's terminal event was handled, the worker of the
\* second could not be started, and the send control is enabled
C28_Witness ==
    /\ Len(threads) = 2
    /\ track[1].terminal
    /\ last.outcome = "start_failed"
    /\ threads[2].pc = "not_started"
    /\ send_btn_enabled


\* a request that was started and whose terminal event is not yet handled
Started(i) == threads[i].pc # "not_started" /\ Outstanding(i)

\* C29: the send control is disabled whenever a request is outstanding,
\* also when a second request was started while the first was outstanding.
C29_DisabledWhileOutstanding ==
    (\E i \in DOMAIN threads : Started(i)) => ~send_btn_enabled

\* the text OllamaThread.run gives for an answer without 'response'
C30_Literal ==
    <<"N", "o", " ", "r", "e", "s", "p", "o", "n", "s", "e", " ",
      "c", "o", "n", "t", "e", "n", "t">>

\* C30: a worker that is not streaming and gets a 200 answer whose object
\* has no 'response' puts one final event with the text 'No response
\* content' in the queue and no error event; handled while streaming is
\* off, that event appends the text to the history as an assistant
\* message.
C30_MissingFieldDefault ==
    [][ /\ \A i \in DOMAIN threads :
               /\ ~threads[i].use_streaming
               /\ run_post(i, "ok", [kind |-> "no_field", text |-> <<>>])
               => event_queue' =
                      Append(event_queue,
                             Event(i, "response_received", C30_Literal))
        /\ /\ Handles("response_received")
           /\ ~use_streaming
           /\ ~threads[Next_event.thread].use_streaming
           /\ threads[Next_event.thread].status_code = StatusOK
           => /\ Next_event.text \in {FullAnswer, C30_Literal}
              /\ conversation_history' =
                     Append(conversation_history,
                            Message("assistant", Next_event.text))
      ]_vars

\* the default text was handled and is the last message of the history
C30_Witness ==
    /\ Len(threads) = 1
    /\ ~threads[1].use_streaming
    /\ track[1].terminal
    /\ conversation_history # <<>>
    /\ conversation_history[Len(conversation_history)] =
           Message("assistant", C30_Literal)
====
